---- MODULE Spec2Model ----
(***************************************************************************)
(* FishOilProof: receipt ledger, stage validators, chain verifier.         *)
(*                                                                         *)
(* Representation                                                          *)
(*   - a Python dict is a sequence of <<key, value>> pairs (insertion      *)
(*     order kept, keys unique);                                           *)
(*   - a JSON object (a ledger line, or the sort_keys form that is hashed) *)
(*     is a function from field names to JSON values, and so is a receipt  *)
(*     parsed back from a line, with Python values;                        *)
(*   - Optional[...] is <<>> for None and <<v>> for a value;               *)
(*   - measurements are integers in thousandths of their unit;             *)
(*   - strings that the code searches for ":" are sequences of characters; *)
(*   - a digest is the tagged input it was computed from, so two digests   *)
(*     are equal exactly when their inputs are (collision-free hashing).   *)
(***************************************************************************)
EXTENDS Integers, Sequences, FiniteSets, TLC

VARIABLES
    ledger,   \* the ledger file: one JSON text per line, in file order
    clock,    \* the wall clock read by datetime.now()
    last,     \* outcome of the last operation called
    sess,     \* per caller: stages done, hash and lot held from earlier calls;
              \* for callers running at once, the place inside the call
    faults    \* number of calls so far that passed a previous_hash other
              \* than the hash returned by the caller's previous stage

vars == <<ledger, clock, last, sess, faults>>

-----------------------------------------------------------------------------
(* Bounds of the model *)

MaxLedger == 6
MaxClock == 1
MaxFaults == 1

MaxLines == 2    \* ledger lines when every operation is called directly
Callers == {1, 2}
Lots == {"LOT-A", "LOT-B"}

-----------------------------------------------------------------------------
(* Python dicts *)

DictKeys(d) == {d[i][1] : i \in DOMAIN d}

DictHas(d, k) == \E i \in DOMAIN d : d[i][1] = k

DictGet(d, k) == d[CHOOSE i \in DOMAIN d : d[i][1] = k][2]

\* d[k] = v: an existing key keeps its position, a new key goes last
DictSet(d, k, v) ==
    IF DictHas(d, k)
    THEN [i \in DOMAIN d |-> IF d[i][1] = k THEN <<k, v>> ELSE d[i]]
    ELSE Append(d, <<k, v>>)

RECURSIVE DictUpdate(_, _)
DictUpdate(d, e) ==
    IF e = <<>> THEN d
    ELSE DictUpdate(DictSet(d, e[1][1], e[1][2]), Tail(e))

DictValues(d) == [i \in DOMAIN d |-> d[i][2]]

\* r.get(k) is used only where the model has checked that k is present
Has(r, k) == k \in DOMAIN r

-----------------------------------------------------------------------------
(* Optional values *)

None == <<>>

Some(v) == <<v>>

\* Python truthiness of an Optional string: None and "" are falsy.  Falsy is
\* for strings kept as sequences (hashes), FalsyText for plain strings.
Falsy(o) == o = None \/ o = Some(<<>>)

FalsyText(o) == o = None \/ o = Some("")

-----------------------------------------------------------------------------
(* core.py *)

DEFAULT_TENANT == "fishoilproof-demo"

Blake3(data) == <<"blake3", data>>

\* "SHA256_<hex>:BLAKE3_<hex>": both digests are of the same data, which
\* the value holds once
dual_hash(data) == <<"SHA256_:BLAKE3_", data>>

\* a level that carries a trailing unpaired node up as it is
RECURSIVE MerkleLevelPromotingOdd(_)
MerkleLevelPromotingOdd(leaves) ==
    IF Len(leaves) = 0 THEN <<>>
    ELSE IF Len(leaves) = 1 THEN <<leaves[1]>>
    ELSE <<Blake3(<<leaves[1], leaves[2]>>)>>
         \o MerkleLevelPromotingOdd(SubSeq(leaves, 3, Len(leaves)))

\* a level that hashes a trailing unpaired node on its own
RECURSIVE MerkleLevelOddAlone(_)
MerkleLevelOddAlone(leaves) ==
    IF Len(leaves) = 0 THEN <<>>
    ELSE IF Len(leaves) = 1 THEN <<Blake3(<<leaves[1]>>)>>
    ELSE <<Blake3(<<leaves[1], leaves[2]>>)>>
         \o MerkleLevelOddAlone(SubSeq(leaves, 3, Len(leaves)))

RECURSIVE MerkleLevel(_)
MerkleLevel(leaves) ==
    IF Len(leaves) = 0 THEN <<>>
    ELSE IF Len(leaves) = 1 THEN <<Blake3(<<leaves[1], leaves[1]>>)>>
    ELSE <<Blake3(<<leaves[1], leaves[2]>>)>> \o MerkleLevel(SubSeq(leaves, 3, Len(leaves)))

RECURSIVE MerkleReduce(_)
MerkleReduce(leaves) ==
    IF Len(leaves) > 1 THEN MerkleReduce(MerkleLevel(leaves)) ELSE leaves[1]

merkle_root(items) ==
    IF items = <<>> THEN Blake3("empty")
    ELSE MerkleReduce([i \in DOMAIN items |-> Blake3(items[i])])

\* Fields whose value may be any Python object; such a value carries its kind
\* and its str() text.
FreeKeys == {"note"}

\* str(v), as the Merkle leaves use it: an object becomes the string of its
\* text, a string is unchanged.  Values of the typed fields stand for their
\* own text.
PyStr(k, v) ==
    IF k \in FreeKeys /\ v.py = "object" THEN [py |-> "str", text |-> v.text] ELSE v

\* The JSON value json.dumps(..., default=str) writes for d[k] = v: a str, and
\* an object through str(), become a JSON string
JsonValue(k, v) ==
    IF k \in FreeKeys THEN [json |-> "string", text |-> v.text] ELSE v

\* json.dumps(d, default=str), and with sort_keys=True: the JSON object
JsonDumps(d) == [k \in DictKeys(d) |-> JsonValue(k, DictGet(d, k))]

\* json.loads of a line: a JSON string becomes a Python str
JsonLoads(line) ==
    IF DOMAIN line \cap FreeKeys = {} THEN line
    ELSE [k \in DOMAIN line |->
             IF k \in FreeKeys THEN [py |-> "str", text |-> line[k].text]
             ELSE line[k]]

\* a serialisation that leaves merkle_root in
CanonicalBytesWithMerkle(obj) ==
    [k \in DOMAIN obj \ {"payload_hash"} |-> JsonValue(k, obj[k])]

\* the dict without the two hash fields, serialised with sort_keys=True
CanonicalBytes(obj) ==
    [k \in DOMAIN obj \ {"payload_hash", "merkle_root"} |-> JsonValue(k, obj[k])]

\* a receipt hashed before the timestamp is put in
BuildReceiptHashedUndated(receipt_type, payload, tenant_id, ts) ==
    LET tenant == IF FalsyText(tenant_id) THEN DEFAULT_TENANT ELSE tenant_id[1]
        undated == DictUpdate(<< <<"receipt_type", receipt_type>>,
                                 <<"tenant_id", tenant>> >>, payload)
        base == << <<"receipt_type", receipt_type>>, <<"ts", ts>>,
                   <<"tenant_id", tenant>> >>
        receipt == DictUpdate(base, payload)
        hashed == DictSet(receipt, "payload_hash", dual_hash(JsonDumps(undated)))
    IN  DictSet(hashed, "merkle_root",
                merkle_root([i \in DOMAIN hashed |->
                                PyStr(hashed[i][1], hashed[i][2])]))

\* The receipt dict emit_receipt builds; ts is datetime.now()
BuildReceipt(receipt_type, payload, tenant_id, ts) ==
    LET tenant == IF FalsyText(tenant_id) THEN DEFAULT_TENANT ELSE tenant_id[1]
        base == << <<"receipt_type", receipt_type>>, <<"ts", ts>>,
                   <<"tenant_id", tenant>> >>
        receipt == DictUpdate(base, payload)
        hashed == DictSet(receipt, "payload_hash", dual_hash(JsonDumps(receipt)))
    IN  DictSet(hashed, "merkle_root",
                merkle_root([i \in DOMAIN hashed |->
                                PyStr(hashed[i][1], hashed[i][2])]))

\* The line emit_receipt appends for that receipt
ReceiptLine(receipt) == JsonDumps(receipt)

\* What open(target, "w") would leave, and what writing at the head of the
\* file would
WriteLineTruncating(file, line) == <<line>>

WriteLineFirst(file, line) == <<line>> \o file

\* open(target, "a"); f.write(line + "\n")
WriteLine(file, line) == Append(file, line)

\* emit_receipt returns the receipt dict; the action that calls it appends
\* ReceiptLine of it to the ledger with WriteLine
emit_receipt(receipt_type, payload, tenant_id, ts) ==
    BuildReceipt(receipt_type, payload, tenant_id, ts)

load_ledger(file) == [i \in DOMAIN file |-> JsonLoads(file[i])]

-----------------------------------------------------------------------------
(* chain.py *)

STAGE_ORDER == <<"catch", "processing", "testing", "encapsulation", "distribution">>

GetType(r) == IF Has(r, "receipt_type") THEN r["receipt_type"] ELSE "None"

\* r.get(k): None when the key is absent
Get(r, k) == IF Has(r, k) THEN Some(r[k]) ELSE None

\* a check that only looks for a stored hash
verify_single_receipt_presence(receipt) == ~Falsy(Get(receipt, "payload_hash"))

verify_single_receipt(receipt) ==
    IF Falsy(Get(receipt, "payload_hash")) THEN FALSE
    ELSE dual_hash(CanonicalBytes(receipt)) = receipt["payload_hash"]

\* what a for loop that runs to the end and keeps its latest match yields
LastWhere(receipts, hits) ==
    IF hits = {} THEN None
    ELSE Some(receipts[CHOOSE i \in hits : \A j \in hits : j <= i])

\* the first of the receipts at the indices in hits, as an Optional: what a
\* for loop that returns on its first match yields
FirstWhere(receipts, hits) ==
    IF hits = {} THEN None
    ELSE Some(receipts[CHOOSE i \in hits : \A j \in hits : i <= j])

_find_receipt_by_hash(payload_hash, receipts) ==
    FirstWhere(receipts,
        {i \in DOMAIN receipts :
            Has(receipts[i], "payload_hash") /\ receipts[i]["payload_hash"] = payload_hash})

\* a search that keeps the last distribution receipt of the lot
FindLastDistributionByLot(lot_number, receipts) ==
    LET hits == {i \in DOMAIN receipts :
                    /\ GetType(receipts[i]) = "distribution"
                    /\ Has(receipts[i], "lot_number")
                    /\ receipts[i]["lot_number"] = lot_number}
    IN  IF hits = {} THEN None
        ELSE Some(receipts[CHOOSE i \in hits : \A j \in hits : j <= i])

_find_distribution_by_lot(lot_number, receipts) ==
    FirstWhere(receipts,
        {i \in DOMAIN receipts :
            /\ GetType(receipts[i]) = "distribution"
            /\ Has(receipts[i], "lot_number") /\ receipts[i]["lot_number"] = lot_number})

_find_encapsulation_by_lot(lot_number, receipts) ==
    FirstWhere(receipts,
        {i \in DOMAIN receipts :
            /\ GetType(receipts[i]) = "encapsulation"
            /\ Has(receipts[i], "lot_number") /\ receipts[i]["lot_number"] = lot_number})

Error(msg, arg) == [msg |-> msg, arg |-> arg]

\* a walk that also stops at a receipt of the wrong type
RECURSIVE WalkBackUntilWrongType(_, _, _, _, _)
WalkBackUntilWrongType(current, expected, receipts, chain, errors) ==
    IF expected = <<>> THEN [chain |-> chain, errors |-> errors]
    ELSE IF Falsy(Get(current, "previous_hash"))
    THEN [chain |-> chain,
          errors |-> Append(errors, [msg |-> "Missing previous_hash on",
                                     arg |-> GetType(current)])]
    ELSE LET prev_hash == current["previous_hash"]
             hits == {i \in DOMAIN receipts :
                         Has(receipts[i], "payload_hash")
                         /\ receipts[i]["payload_hash"] = prev_hash}
         IN  IF hits = {}
             THEN [chain |-> chain,
                   errors |-> Append(errors, [msg |-> "Cannot find receipt with hash",
                                              arg |-> prev_hash])]
             ELSE LET found == receipts[CHOOSE i \in hits : \A j \in hits : i <= j]
                  IN  IF GetType(found) # Head(expected)
                      THEN [chain |-> Append(chain, found),
                            errors |-> Append(errors,
                                [msg |-> "Expected receipt but found",
                                 arg |-> <<Head(expected), GetType(found)>>])]
                      ELSE WalkBackUntilWrongType(found, Tail(expected), receipts,
                                                  Append(chain, found), errors)

\* The for loop of verify_chain over the expected types, with its two breaks
RECURSIVE WalkBack(_, _, _, _, _)
WalkBack(current, expected, receipts, chain, errors) ==
    IF expected = <<>> THEN [chain |-> chain, errors |-> errors]
    ELSE IF Falsy(Get(current, "previous_hash"))
    THEN [chain |-> chain,
          errors |-> Append(errors, Error("Missing previous_hash on", GetType(current)))]
    ELSE LET prev_hash == current["previous_hash"]
             prev_receipt == _find_receipt_by_hash(prev_hash, receipts)
         IN  IF prev_receipt = None
             THEN [chain |-> chain,
                   errors |-> Append(errors, Error("Cannot find receipt with hash", prev_hash))]
             ELSE WalkBack(prev_receipt[1], Tail(expected), receipts,
                           Append(chain, prev_receipt[1]),
                           IF GetType(prev_receipt[1]) # Head(expected)
                           THEN Append(errors, Error("Expected receipt but found",
                                                     <<Head(expected), GetType(prev_receipt[1])>>))
                           ELSE errors)

\* a walk that skips hash recomputation
NoHashErrors(chain) == <<>>

\* hash recomputation that is skipped when the walk stopped early
HashErrorsIfComplete(chain) ==
    IF Len(chain) < 5 THEN <<>>
    ELSE LET failed == SelectSeq(chain, LAMBDA r : ~verify_single_receipt(r))
         IN  [i \in DOMAIN failed |->
                 [msg |-> "Hash verification failed for", arg |-> GetType(failed[i])]]

RECURSIVE HashErrors(_)
HashErrors(chain) ==
    IF chain = <<>> THEN <<>>
    ELSE (IF verify_single_receipt(Head(chain)) THEN <<>>
          ELSE <<Error("Hash verification failed for", GetType(Head(chain)))>>)
         \o HashErrors(Tail(chain))

\* result["receipts"][r.get("receipt_type")] = r, for r in chain
RECURSIVE ReceiptsByType(_, _)
ReceiptsByType(chain, d) ==
    IF chain = <<>> THEN d
    ELSE ReceiptsByType(Tail(chain), DictSet(d, GetType(Head(chain)), Head(chain)))

\* a result that calls every chain of five receipts valid
ChainResultByLength(lot_number, chain, errors, now) ==
    [lot_number |-> lot_number,
     chain_length |-> Len(chain),
     chain_valid |-> (Len(chain) = 5),
     receipts |-> [i \in DOMAIN chain |-> <<chain[i]["receipt_type"], chain[i]>>],
     errors |-> errors,
     verified_at |-> now]

\* a result that also asks every receipt that has an overall_pass for TRUE
ChainResultOfPassed(lot_number, chain, errors, now) ==
    [lot_number |-> lot_number,
     chain_length |-> Len(chain),
     chain_valid |-> (/\ Len(errors) = 0 /\ Len(chain) = 5
                      /\ \A i \in DOMAIN chain :
                             Has(chain[i], "overall_pass") => chain[i]["overall_pass"]),
     receipts |-> ReceiptsByType(chain, <<>>),
     errors |-> errors,
     verified_at |-> now]

ChainResult(lot_number, chain, errors, now) ==
    [lot_number |-> lot_number,
     chain_length |-> Len(chain),
     chain_valid |-> (Len(errors) = 0 /\ Len(chain) = 5),
     receipts |-> ReceiptsByType(chain, <<>>),
     errors |-> errors,
     verified_at |-> now]

\* a result that counts the receipt the search ended on
EarlyResultCountingOne(lot_number, errors, now) ==
    [lot_number |-> lot_number, chain_length |-> 1, chain_valid |-> FALSE,
     receipts |-> <<>>, errors |-> errors, verified_at |-> now]

EarlyResult(lot_number, errors, now) ==
    [lot_number |-> lot_number, chain_length |-> 0, chain_valid |-> FALSE,
     receipts |-> <<>>, errors |-> errors, verified_at |-> now]

\* a verification that does not compare the distribution receipt's
\* previous_hash with the encapsulation receipt's payload_hash
VerifyChainUnlinked(lot_number, file, now) ==
    LET receipts == load_ledger(file)
        dist == _find_distribution_by_lot(lot_number, receipts)
        encap == _find_encapsulation_by_lot(lot_number, receipts)
    IN  IF dist = None
        THEN EarlyResult(lot_number,
                 <<Error("No distribution receipt found for lot", lot_number)>>, now)
        ELSE IF encap = None
        THEN EarlyResult(lot_number,
                 <<Error("No encapsulation receipt found for lot", lot_number)>>, now)
        ELSE LET walk == WalkBack(encap[1], <<"testing", "processing", "catch">>,
                                  receipts, <<dist[1], encap[1]>>, <<>>)
             IN  ChainResult(lot_number, walk.chain,
                             walk.errors \o HashErrors(walk.chain), now)

verify_chain(lot_number, file, now) ==
    LET receipts == load_ledger(file)
        dist == _find_distribution_by_lot(lot_number, receipts)
        encap == _find_encapsulation_by_lot(lot_number, receipts)
    IN  IF dist = None
        THEN EarlyResult(lot_number,
                 <<Error("No distribution receipt found for lot", lot_number)>>, now)
        ELSE IF encap = None
        THEN EarlyResult(lot_number,
                 <<Error("No encapsulation receipt found for lot", lot_number)>>, now)
        ELSE LET link == IF Get(dist[1], "previous_hash") # Get(encap[1], "payload_hash")
                         THEN <<Error("Distribution previous_hash does not match encapsulation payload_hash", None)>>
                         ELSE <<>>
                 walk == WalkBack(encap[1], <<"testing", "processing", "catch">>,
                                  receipts, <<dist[1], encap[1]>>, link)
             IN  ChainResult(lot_number, walk.chain,
                             walk.errors \o HashErrors(walk.chain), now)

-----------------------------------------------------------------------------
(* Outcome of a call: what it raised, and the receipt it emitted if any *)

NoError == [msg |-> "", arg |-> None]

Return(receipt) == [raised |-> FALSE, error |-> NoError, receipt |-> Some(receipt)]

Raise(msg, arg) == [raised |-> TRUE, error |-> Error(msg, arg), receipt |-> None]

\* a stop raised before anything was emitted
RaiseWithoutEmit(msg, arg, receipt) ==
    [raised |-> TRUE, error |-> [msg |-> msg, arg |-> arg], receipt |-> <<>>]

RaiseAfterEmit(msg, arg, receipt) ==
    [raised |-> TRUE, error |-> Error(msg, arg), receipt |-> Some(receipt)]

\* a check that takes every string for a dual hash
AnyStringSeparated(s) == TRUE

\* ":" in s, for a string kept as a sequence of characters
HasSeparator(s) == \E i \in DOMAIN s : s[i] = ":"

\* round-half-even of num/den, den > 0, num >= 0
RoundDiv(num, den) ==
    LET q == num \div den
        r == num % den
    IN  IF 2 * r < den THEN q
        ELSE IF 2 * r > den THEN q + 1
        ELSE IF q % 2 = 0 THEN q ELSE q + 1

\* round(x, 2) of a value in thousandths, in thousandths
Round2(x) == 10 * RoundDiv(x, 10)

-----------------------------------------------------------------------------
(* catch.py *)

APPROVED_SPECIES ==
    [s \in {"Engraulis ringens", "Sardina pilchardus", "Brevoortia tyrannus",
            "Brevoortia patronus", "Clupea harengus", "Scomber scombrus",
            "Mallotus villosus", "Salmo salar", "Oncorhynchus mykiss",
            "Gadus morhua", "Pollachius virens", "Thunnus albacares",
            "Katsuwonus pelamis", "Sprattus sprattus",
            "Micromesistius poutassou"} |->
       CASE s = "Engraulis ringens" -> "Peruvian Anchoveta"
         [] s = "Sardina pilchardus" -> "European Sardine"
         [] s = "Brevoortia tyrannus" -> "Atlantic Menhaden"
         [] s = "Brevoortia patronus" -> "Gulf Menhaden"
         [] s = "Clupea harengus" -> "Atlantic Herring"
         [] s = "Scomber scombrus" -> "Atlantic Mackerel"
         [] s = "Mallotus villosus" -> "Capelin"
         [] s = "Salmo salar" -> "Atlantic Salmon"
         [] s = "Oncorhynchus mykiss" -> "Rainbow Trout"
         [] s = "Gadus morhua" -> "Atlantic Cod"
         [] s = "Pollachius virens" -> "Pollock"
         [] s = "Thunnus albacares" -> "Yellowfin Tuna"
         [] s = "Katsuwonus pelamis" -> "Skipjack Tuna"
         [] s = "Sprattus sprattus" -> "European Sprat"
         [] OTHER -> "Blue Whiting"]

FISHERY_CERT_TYPES == {"MSC", "FriendOfSea", "None"}

validate_species(species) == species \in DOMAIN APPROVED_SPECIES

\* create_catch_receipt looking at the certification before the species
CreateCatchCertificationFirst(in, ts) ==
    IF in.fishery_cert_type \notin FISHERY_CERT_TYPES
    THEN Raise("Invalid fishery cert type", in.fishery_cert_type)
    ELSE IF in.fishery_cert_type # "None" /\ Falsy(in.fishery_cert_hash)
    THEN Raise("Fishery cert type claimed but no cert hash provided",
               in.fishery_cert_type)
    ELSE IF ~validate_species(in.species)
    THEN Raise("Species not FDA-approved for fish oil", in.species)
    ELSE Return(emit_receipt("catch",
           << <<"species", in.species>>,
              <<"species_common", APPROVED_SPECIES[in.species]>>,
              <<"fishery_approved", TRUE>>,
              <<"fishery_registry", in.fishery_registry>>,
              <<"import_docs_hash", in.import_docs_hash>>,
              <<"fishery_cert_type", in.fishery_cert_type>>,
              <<"fishery_cert_id", in.fishery_cert_id>>,
              <<"fishery_cert_hash", in.fishery_cert_hash>> >>,
           in.tenant_id, ts))

create_catch_receipt(in, ts) ==
    IF ~validate_species(in.species)
    THEN Raise("Species not FDA-approved for fish oil", in.species)
    ELSE IF in.fishery_cert_type \notin FISHERY_CERT_TYPES
    THEN Raise("Invalid fishery cert type", in.fishery_cert_type)
    ELSE IF in.fishery_cert_type # "None" /\ Falsy(in.fishery_cert_hash)
    THEN Raise("Fishery cert type claimed but no cert hash provided",
               in.fishery_cert_type)
    ELSE Return(emit_receipt("catch",
           << <<"species", in.species>>,
              <<"species_common", APPROVED_SPECIES[in.species]>>,
              <<"fishery_approved", TRUE>>,
              <<"fishery_registry", in.fishery_registry>>,
              <<"import_docs_hash", in.import_docs_hash>>,
              <<"fishery_cert_type", in.fishery_cert_type>>,
              <<"fishery_cert_id", in.fishery_cert_id>>,
              <<"fishery_cert_hash", in.fishery_cert_hash>> >>,
           in.tenant_id, ts))

-----------------------------------------------------------------------------
(* processing.py *)

EXTRACTION_METHODS == {"MolecularDistillation", "Winterization", "SupercriticalCO2"}

GMP_CERT_TYPES == {"NSF", "USP", "Other"}

\* 0.12 and 0.18, in thousandths
YIELD_MIN == 120

YIELD_MAX == 180

\* validate_yield with the band taken without its ends
ValidateYieldOpenBand(input_kg, output_kg) ==
    [ratio |-> RoundDiv(output_kg * 10000, input_kg),
     status |-> IF output_kg * 1000 <= YIELD_MIN * input_kg THEN "LOW"
                ELSE IF output_kg * 1000 >= YIELD_MAX * input_kg
                THEN "HIGH_DILUTION_FLAG"
                ELSE "NORMAL"]

\* validate_yield for positive input and output: ratio = output_kg / input_kg
\* is compared as a fraction; the ratio is returned in ten-thousandths, as
\* round(ratio, 4) records it
validate_yield(input_kg, output_kg) ==
    [ratio |-> RoundDiv(output_kg * 10000, input_kg),
     status |-> IF output_kg * 1000 < YIELD_MIN * input_kg THEN "LOW"
                ELSE IF output_kg * 1000 > YIELD_MAX * input_kg
                THEN "HIGH_DILUTION_FLAG"
                ELSE "NORMAL"]

create_processing_receipt(in, ts) ==
    IF in.gmp_cert_type \notin GMP_CERT_TYPES
    THEN Raise("Invalid GMP cert type", in.gmp_cert_type)
    ELSE IF in.extraction_method \notin EXTRACTION_METHODS
    THEN Raise("Invalid extraction method", in.extraction_method)
    ELSE IF ~HasSeparator(in.gmp_cert_hash)
    THEN Raise("GMP cert hash must be dual-hash format (SHA256:BLAKE3)", None)
    ELSE IF in.yield_input_kg <= 0 \/ in.yield_output_kg <= 0
    THEN Raise("Invalid yield values", <<in.yield_input_kg, in.yield_output_kg>>)
    ELSE LET y == validate_yield(in.yield_input_kg, in.yield_output_kg)
         IN  Return(emit_receipt("processing",
               << <<"facility_id", in.facility_id>>,
                  <<"facility_name", in.facility_name>>,
                  <<"gmp_cert_type", in.gmp_cert_type>>,
                  <<"gmp_cert_id", in.gmp_cert_id>>,
                  <<"gmp_cert_hash", in.gmp_cert_hash>>,
                  <<"batch_id", in.batch_id>>,
                  <<"extraction_method", in.extraction_method>>,
                  <<"extraction_temp_c", in.extraction_temp_c>>,
                  <<"yield_input_kg", in.yield_input_kg>>,
                  <<"yield_output_kg", in.yield_output_kg>>,
                  <<"yield_ratio", y.ratio>>,
                  <<"yield_expected_min", YIELD_MIN>>,
                  <<"yield_expected_max", YIELD_MAX>>,
                  <<"yield_status", y.status>>,
                  <<"previous_hash", in.previous_hash>> >>,
               in.tenant_id, ts))

-----------------------------------------------------------------------------
(* testing.py *)

LAB_CERT_TYPES == {"ISO17025", "Other"}

\* GOED/FDA limits, in thousandths
LIMITS ==
    [mercury_ppm |-> 100, pcbs_ppm |-> 90, dioxins_pg_per_g |-> 3000,
     peroxide_meq_per_kg |-> 5000, anisidine |-> 20000, totox |-> 26000]

\* potency must be at least 95 percent of the label claim
POTENCY_THRESHOLD == 95

\* validate_contaminants with a value at its ceiling failing
ValidateContaminantsBelowCeiling(mercury, pcbs, dioxins) ==
    LET mercury_pass == mercury < LIMITS.mercury_ppm
        pcbs_pass == pcbs < LIMITS.pcbs_ppm
        dioxins_pass == dioxins < LIMITS.dioxins_pg_per_g
    IN  [mercury_ppm |-> mercury, mercury_pass |-> mercury_pass,
         pcbs_ppm |-> pcbs, pcbs_pass |-> pcbs_pass,
         dioxins_pg_per_g |-> dioxins, dioxins_pass |-> dioxins_pass,
         all_pass |-> (mercury_pass /\ pcbs_pass /\ dioxins_pass)]

validate_contaminants(mercury, pcbs, dioxins) ==
    LET mercury_pass == mercury <= LIMITS.mercury_ppm
        pcbs_pass == pcbs <= LIMITS.pcbs_ppm
        dioxins_pass == dioxins <= LIMITS.dioxins_pg_per_g
    IN  [mercury_ppm |-> mercury, mercury_pass |-> mercury_pass,
         pcbs_ppm |-> pcbs, pcbs_pass |-> pcbs_pass,
         dioxins_pg_per_g |-> dioxins, dioxins_pass |-> dioxins_pass,
         all_pass |-> (mercury_pass /\ pcbs_pass /\ dioxins_pass)]

validate_potency(epa_mg, dha_mg, label_claim_mg) ==
    LET total == epa_mg + dha_mg
    IN  [epa_mg |-> epa_mg, dha_mg |-> dha_mg, total_omega3_mg |-> total,
         label_claim_mg |-> label_claim_mg,
         potency_pass |-> (total * 100 >= label_claim_mg * POTENCY_THRESHOLD)]

\* an oxidation check that looks at TOTOX only
ValidateOxidationTotoxOnly(peroxide, anisidine) ==
    LET totox == 2 * peroxide + anisidine
    IN  [peroxide_meq_per_kg |-> peroxide, anisidine |-> anisidine,
         totox |-> Round2(totox),
         oxidation_pass |-> (totox <= LIMITS.totox)]

validate_oxidation(peroxide, anisidine) ==
    LET totox == 2 * peroxide + anisidine
    IN  [peroxide_meq_per_kg |-> peroxide, anisidine |-> anisidine,
         totox |-> Round2(totox),
         oxidation_pass |-> (/\ peroxide <= LIMITS.peroxide_meq_per_kg
                             /\ anisidine <= LIMITS.anisidine
                             /\ totox <= LIMITS.totox)]

_emit_testing(in, contaminants, potency, oxidation, overall_pass, ts) ==
    emit_receipt("testing",
        << <<"lab_name", in.lab_name>>,
           <<"lab_cert_type", in.lab_cert_type>>,
           <<"lab_cert_id", in.lab_cert_id>>,
           <<"lab_cert_hash", in.lab_cert_hash>>,
           <<"batch_id", in.batch_id>>,
           <<"contaminants", contaminants>>,
           <<"potency", potency>>,
           <<"oxidation", oxidation>>,
           <<"overall_pass", overall_pass>>,
           <<"previous_hash", in.previous_hash>> >>,
        in.tenant_id, ts)

\* the list of failed contaminants named in the CONTAMINANT_EXCEED message
FailedContaminants(contaminants) ==
    (IF contaminants.mercury_pass THEN <<>> ELSE <<"mercury">>)
    \o (IF contaminants.pcbs_pass THEN <<>> ELSE <<"pcbs">>)
    \o (IF contaminants.dioxins_pass THEN <<>> ELSE <<"dioxins">>)

\* a validator that looks at the measurements before the certificate
CreateTestingMeasurementsFirst(in, ts) ==
    LET contaminants == validate_contaminants(in.mercury_ppm, in.pcbs_ppm,
                                              in.dioxins_pg_per_g)
        potency == validate_potency(in.epa_mg, in.dha_mg, in.label_claim_mg)
        oxidation == validate_oxidation(in.peroxide_meq_per_kg, in.anisidine)
        overall_pass == /\ contaminants.all_pass
                        /\ potency.potency_pass
                        /\ oxidation.oxidation_pass
        receipt == _emit_testing(in, contaminants, potency, oxidation, overall_pass, ts)
    IN  IF ~contaminants.all_pass
        THEN RaiseAfterEmit("CONTAMINANT_EXCEED",
                 [failed |-> FailedContaminants(contaminants),
                  receipt_emitted |-> DictGet(receipt, "payload_hash")],
                 receipt)
        ELSE IF oxidation.totox > LIMITS.totox
        THEN RaiseAfterEmit("TOTOX_EXCEED",
                 [totox |-> oxidation.totox,
                  receipt_emitted |-> DictGet(receipt, "payload_hash")],
                 receipt)
        ELSE IF in.lab_cert_type \notin LAB_CERT_TYPES
        THEN Raise("Invalid lab cert type", in.lab_cert_type)
        ELSE IF ~HasSeparator(in.lab_cert_hash)
        THEN Raise("Lab cert hash must be dual-hash format (SHA256:BLAKE3)", None)
        ELSE Return(receipt)

create_testing_receipt(in, ts) ==
    IF in.lab_cert_type \notin LAB_CERT_TYPES
    THEN Raise("Invalid lab cert type", in.lab_cert_type)
    ELSE IF ~HasSeparator(in.lab_cert_hash)
    THEN Raise("Lab cert hash must be dual-hash format (SHA256:BLAKE3)", None)
    ELSE LET contaminants == validate_contaminants(in.mercury_ppm, in.pcbs_ppm,
                                                   in.dioxins_pg_per_g)
             potency == validate_potency(in.epa_mg, in.dha_mg, in.label_claim_mg)
             oxidation == validate_oxidation(in.peroxide_meq_per_kg, in.anisidine)
             overall_pass == /\ contaminants.all_pass
                             /\ potency.potency_pass
                             /\ oxidation.oxidation_pass
             receipt == _emit_testing(in, contaminants, potency, oxidation,
                                      overall_pass, ts)
         IN  IF ~contaminants.all_pass
             THEN RaiseAfterEmit("CONTAMINANT_EXCEED",
                      [failed |-> FailedContaminants(contaminants),
                       receipt_emitted |-> DictGet(receipt, "payload_hash")],
                      receipt)
             ELSE IF oxidation.totox > LIMITS.totox
             THEN RaiseAfterEmit("TOTOX_EXCEED",
                      [totox |-> oxidation.totox,
                       receipt_emitted |-> DictGet(receipt, "payload_hash")],
                      receipt)
             ELSE Return(receipt)

-----------------------------------------------------------------------------
(* encapsulation.py *)

FACILITY_CERT_TYPES == {"NSF", "USP", "Other"}

\* the fill dates datetime.fromisoformat accepts, among those the model uses
ParsableDates == {"2025-01-31T14:00:00Z", "2025-02-01"}

\* a scan that looks at distribution receipts instead
LotExistsAmongDistribution(lot_number, existing) ==
    \E i \in DOMAIN existing :
        /\ GetType(existing[i]) = "distribution"
        /\ Has(existing[i], "lot_number")
        /\ existing[i]["lot_number"] = lot_number

LotExists(lot_number, existing) ==
    \E i \in DOMAIN existing :
        /\ GetType(existing[i]) = "encapsulation"
        /\ Has(existing[i], "lot_number")
        /\ existing[i]["lot_number"] = lot_number

create_encapsulation_receipt(in, file, ts) ==
    IF in.facility_cert_type \notin FACILITY_CERT_TYPES
    THEN Raise("Invalid facility cert type", in.facility_cert_type)
    ELSE IF ~HasSeparator(in.facility_cert_hash)
    THEN Raise("Facility cert hash must be dual-hash format (SHA256:BLAKE3)", None)
    ELSE IF LotExists(in.lot_number, load_ledger(file))
    THEN Raise("Lot number already exists", in.lot_number)
    ELSE IF in.fill_date \notin ParsableDates
    THEN Raise("Invalid fill_date format (must be ISO8601)", in.fill_date)
    ELSE Return(emit_receipt("encapsulation",
           << <<"facility_id", in.facility_id>>,
              <<"facility_name", in.facility_name>>,
              <<"facility_cert_type", in.facility_cert_type>>,
              <<"facility_cert_id", in.facility_cert_id>>,
              <<"facility_cert_hash", in.facility_cert_hash>>,
              <<"lot_number", in.lot_number>>,
              <<"fill_date", in.fill_date>>,
              <<"batch_id", in.batch_id>>,
              <<"capsule_count", in.capsule_count>>,
              <<"mg_per_capsule", in.mg_per_capsule>>,
              <<"previous_hash", in.previous_hash>> >>,
           in.tenant_id, ts))

-----------------------------------------------------------------------------
(* distribution.py *)

\* cold chain band, in thousandths of a degree, and the deviation budget
COLD_CHAIN_TARGET_MIN == 2000

COLD_CHAIN_TARGET_MAX == 8000

COLD_CHAIN_MAX_DEVIATIONS == 3

ColdChainDisabled(duration_days, temp_log_hash) ==
    [enabled |-> FALSE, avg_temp_c |-> None, min_temp_c |-> None,
     max_temp_c |-> None, duration_days |-> duration_days,
     deviations_count |-> 0, temp_log_hash |-> temp_log_hash,
     cold_chain_pass |-> FALSE]

RECURSIVE SeqSum(_)
SeqSum(q) == IF q = <<>> THEN 0 ELSE Head(q) + SeqSum(Tail(q))

SeqMax(q) == CHOOSE m \in {q[i] : i \in DOMAIN q} : \A i \in DOMAIN q : q[i] <= m

SeqMin(q) == CHOOSE m \in {q[i] : i \in DOMAIN q} : \A i \in DOMAIN q : m <= q[i]

\* validate_cold_chain counting the readings at the ends of the band too
ValidateColdChainClosedCount(temps, duration_days, temp_log_hash) ==
    IF temps = <<>> THEN ColdChainDisabled(duration_days, temp_log_hash)
    ELSE LET max_temp == SeqMax(temps)
             deviations == Cardinality({i \in DOMAIN temps :
                               \/ temps[i] <= COLD_CHAIN_TARGET_MIN
                               \/ temps[i] >= COLD_CHAIN_TARGET_MAX})
         IN  [enabled |-> TRUE,
              avg_temp_c |-> Some(10 * RoundDiv(SeqSum(temps), 10 * Len(temps))),
              min_temp_c |-> Some(Round2(SeqMin(temps))),
              max_temp_c |-> Some(Round2(max_temp)),
              duration_days |-> duration_days,
              deviations_count |-> deviations,
              temp_log_hash |-> temp_log_hash,
              cold_chain_pass |-> (/\ max_temp <= COLD_CHAIN_TARGET_MAX
                                   /\ deviations <= COLD_CHAIN_MAX_DEVIATIONS)]

\* readings are non-negative here; avg is rounded to two decimals
validate_cold_chain(temps, duration_days, temp_log_hash) ==
    IF temps = <<>> THEN ColdChainDisabled(duration_days, temp_log_hash)
    ELSE LET max_temp == SeqMax(temps)
             deviations == Cardinality({i \in DOMAIN temps :
                               \/ temps[i] < COLD_CHAIN_TARGET_MIN
                               \/ temps[i] > COLD_CHAIN_TARGET_MAX})
         IN  [enabled |-> TRUE,
              avg_temp_c |-> Some(10 * RoundDiv(SeqSum(temps), 10 * Len(temps))),
              min_temp_c |-> Some(Round2(SeqMin(temps))),
              max_temp_c |-> Some(Round2(max_temp)),
              duration_days |-> duration_days,
              deviations_count |-> deviations,
              temp_log_hash |-> temp_log_hash,
              cold_chain_pass |-> (/\ max_temp <= COLD_CHAIN_TARGET_MAX
                                   /\ deviations <= COLD_CHAIN_MAX_DEVIATIONS)]

\* cold_chain_data is None or the dict validate_cold_chain returned
create_distribution_receipt(in, ts) ==
    LET cold_chain_data == IF in.cold_chain_data = None
                           THEN ColdChainDisabled(0, None)
                           ELSE in.cold_chain_data[1]
    IN  Return(emit_receipt("distribution",
           << <<"distributor_id", in.distributor_id>>,
              <<"distributor_name", in.distributor_name>>,
              <<"warehouse_id", in.warehouse_id>>,
              <<"warehouse_location", in.warehouse_location>>,
              <<"lot_number", in.lot_number>>,
              <<"cold_chain", cold_chain_data>>,
              <<"previous_hash", in.previous_hash>> >>,
           in.tenant_id, ts))

-----------------------------------------------------------------------------
(* fraud.py: each detector returns None or the anomaly receipt it emitted *)

\* r.get(k, default) for a key the receipt may lack
GetOr(r, k, default) == IF Has(r, k) THEN r[k] ELSE default

Anomaly(anomaly_type, severity, source, details, ts) ==
    Some(emit_receipt("anomaly",
           << <<"anomaly_type", anomaly_type>>,
              <<"severity", severity>>,
              <<"source_receipt_hash", GetOr(source, "payload_hash", <<>>)>>,
              <<"details", details>> >>,
           Get(source, "tenant_id"), ts))

detect_yield_anomaly(processing_receipt, ts) ==
    LET yield_status == Get(processing_receipt, "yield_status")
        yield_ratio == GetOr(processing_receipt, "yield_ratio", 0)
    IN  IF yield_status = Some("HIGH_DILUTION_FLAG")
        THEN Anomaly("YIELD_HIGH", "FLAG", processing_receipt,
                 [yield_ratio |-> yield_ratio,
                  yield_input_kg |-> Get(processing_receipt, "yield_input_kg"),
                  yield_output_kg |-> Get(processing_receipt, "yield_output_kg"),
                  expected_max |-> GetOr(processing_receipt, "yield_expected_max", 180),
                  message |-> "exceeds expected max 18%"], ts)
        ELSE IF yield_status = Some("LOW")
        THEN Anomaly("YIELD_LOW", "WARNING", processing_receipt,
                 [yield_ratio |-> yield_ratio,
                  yield_input_kg |-> Get(processing_receipt, "yield_input_kg"),
                  yield_output_kg |-> Get(processing_receipt, "yield_output_kg"),
                  expected_min |-> GetOr(processing_receipt, "yield_expected_min", 120),
                  message |-> "below expected min 12%"], ts)
        ELSE None

detect_label_fraud(testing_receipt, ts) ==
    LET potency == GetOr(testing_receipt, "potency", [none |-> TRUE])
    IN  IF ~GetOr(potency, "potency_pass", TRUE)
        THEN LET total == GetOr(potency, "total_omega3_mg", 0)
                 claim == GetOr(potency, "label_claim_mg", 0)
                 \* percent of claim, in tenths of a percent
                 pct == IF claim > 0 THEN RoundDiv(total * 1000, claim) ELSE 0
             IN  Anomaly("LABEL_FRAUD", "FLAG", testing_receipt,
                     [actual_mg |-> total, label_claim_mg |-> claim,
                      percentage_of_claim |-> pct, threshold |-> "95%",
                      message |-> "below 95% threshold"], ts)
        ELSE None

detect_contaminant_exceed(testing_receipt, ts) ==
    LET contaminants == GetOr(testing_receipt, "contaminants", [none |-> TRUE])
        Failed(flag, name) ==
            IF ~GetOr(contaminants, flag, TRUE)
            THEN << <<name, Get(contaminants, name)>> >> ELSE <<>>
    IN  IF ~GetOr(contaminants, "all_pass", TRUE)
        THEN Anomaly("CONTAMINANT_EXCEED", "REJECT", testing_receipt,
                 [failed_contaminants |->
                      Failed("mercury_pass", "mercury_ppm")
                      \o Failed("pcbs_pass", "pcbs_ppm")
                      \o Failed("dioxins_pass", "dioxins_pg_per_g"),
                  message |-> "One or more contaminants exceed FDA/GOED limits"], ts)
        ELSE None

\* the detector looking at the deviation count before the maximum
ColdChainDeviationsFirst(distribution_receipt, ts) ==
    LET cold_chain == GetOr(distribution_receipt, "cold_chain", [none |-> TRUE])
        max_temp == GetOr(cold_chain, "max_temp_c", None)
        deviations == GetOr(cold_chain, "deviations_count", 0)
    IN  IF ~GetOr(cold_chain, "enabled", FALSE) THEN None
        ELSE IF deviations > 3
        THEN Anomaly("COLD_CHAIN_DEGRADATION", "WARNING", distribution_receipt,
                 [max_temp_c |-> max_temp, deviations_count |-> deviations,
                  threshold_deviations |-> 3,
                  message |-> "temperature deviations exceed threshold of 3"], ts)
        ELSE IF max_temp # None /\ max_temp[1] > 8000
        THEN Anomaly("COLD_CHAIN_DEGRADATION", "FLAG", distribution_receipt,
                 [max_temp_c |-> max_temp,
                  avg_temp_c |-> GetOr(cold_chain, "avg_temp_c", None),
                  deviations_count |-> deviations, threshold_max_c |-> 8000,
                  message |-> "exceeds 8C threshold"], ts)
        ELSE None

detect_cold_chain_degradation(distribution_receipt, ts) ==
    LET cold_chain == GetOr(distribution_receipt, "cold_chain", [none |-> TRUE])
        max_temp == GetOr(cold_chain, "max_temp_c", None)
        deviations == GetOr(cold_chain, "deviations_count", 0)
    IN  IF ~GetOr(cold_chain, "enabled", FALSE) THEN None
        ELSE IF max_temp # None /\ max_temp[1] > 8000
        THEN Anomaly("COLD_CHAIN_DEGRADATION", "FLAG", distribution_receipt,
                 [max_temp_c |-> max_temp,
                  avg_temp_c |-> GetOr(cold_chain, "avg_temp_c", None),
                  deviations_count |-> deviations, threshold_max_c |-> 8000,
                  message |-> "exceeds 8C threshold"], ts)
        ELSE IF deviations > 3
        THEN Anomaly("COLD_CHAIN_DEGRADATION", "WARNING", distribution_receipt,
                 [max_temp_c |-> max_temp, deviations_count |-> deviations,
                  threshold_deviations |-> 3,
                  message |-> "temperature deviations exceed threshold of 3"], ts)
        ELSE None

\* the dispatch with the two checks of a testing receipt swapped
ChecksContaminantFirst(receipt, ts) ==
    LET rtype == GetType(receipt)
    IN  IF rtype = "processing" THEN detect_yield_anomaly(receipt, ts)
        ELSE IF rtype = "testing"
        THEN detect_contaminant_exceed(receipt, ts) \o detect_label_fraud(receipt, ts)
        ELSE IF rtype = "distribution" THEN detect_cold_chain_degradation(receipt, ts)
        ELSE <<>>

\* the anomalies one receipt of the chain contributes, by its type
ChecksFor(receipt, ts) ==
    LET rtype == GetType(receipt)
    IN  IF rtype = "processing" THEN detect_yield_anomaly(receipt, ts)
        ELSE IF rtype = "testing"
        THEN detect_label_fraud(receipt, ts) \o detect_contaminant_exceed(receipt, ts)
        ELSE IF rtype = "distribution" THEN detect_cold_chain_degradation(receipt, ts)
        ELSE <<>>

\* a loop that puts each receipt's findings in front of the earlier ones
RECURSIVE FraudChecksNewestFirst(_, _)
FraudChecksNewestFirst(chain, ts) ==
    IF chain = <<>> THEN <<>>
    ELSE FraudChecksNewestFirst(Tail(chain), ts) \o ChecksFor(Head(chain), ts)

\* the list run_all_fraud_checks returns; every element was emitted, in order
RECURSIVE run_all_fraud_checks(_, _)
run_all_fraud_checks(chain, ts) ==
    IF chain = <<>> THEN <<>>
    ELSE ChecksFor(Head(chain), ts) \o run_all_fraud_checks(Tail(chain), ts)

-----------------------------------------------------------------------------
(* chain.py: the consumer summary and the QR payload; mcp_server.py *)

DictGetOr(d, k, default) == IF DictHas(d, k) THEN DictGet(d, k) ELSE default

\* f"{x:.0f}" of a measurement kept in thousandths
Format0f(x) == RoundDiv(x, 1000)

get_chain_summary(lot_number, file, now) ==
    LET chain == verify_chain(lot_number, file, now)
    IN  IF ~chain.chain_valid
        THEN [lot |-> lot_number, valid |-> FALSE, errors |-> chain.errors]
        ELSE LET catch == DictGetOr(chain.receipts, "catch", [none |-> TRUE])
                 processing == DictGetOr(chain.receipts, "processing", [none |-> TRUE])
                 testing == DictGetOr(chain.receipts, "testing", [none |-> TRUE])
                 distribution == DictGetOr(chain.receipts, "distribution", [none |-> TRUE])
                 contaminants == GetOr(testing, "contaminants", [none |-> TRUE])
                 potency == GetOr(testing, "potency", [none |-> TRUE])
                 oxidation == GetOr(testing, "oxidation", [none |-> TRUE])
                 cold_chain == GetOr(distribution, "cold_chain", [none |-> TRUE])
             IN  [lot |-> lot_number,
                  valid |-> TRUE,
                  chain_length |-> chain.chain_length,
                  species |-> GetOr(catch, "species_common", "Unknown"),
                  species_scientific |-> GetOr(catch, "species", "Unknown"),
                  fishery_certified |-> GetOr(catch, "fishery_cert_type", "None") # "None",
                  fishery_cert |-> GetOr(catch, "fishery_cert_type", "None"),
                  contaminants_pass |-> GetOr(contaminants, "all_pass", FALSE),
                  potency_verified |->
                      [epa_dha_mg |-> Format0f(GetOr(potency, "total_omega3_mg", 0)),
                       label_mg |-> Format0f(GetOr(potency, "label_claim_mg", 0))],
                  potency_pass |-> GetOr(potency, "potency_pass", FALSE),
                  totox |-> GetOr(oxidation, "totox", 0),
                  oxidation_pass |-> GetOr(oxidation, "oxidation_pass", FALSE),
                  yield_status |-> GetOr(processing, "yield_status", "UNKNOWN"),
                  yield_normal |-> Get(processing, "yield_status") = Some("NORMAL"),
                  cold_chain_verified |-> GetOr(cold_chain, "cold_chain_pass", FALSE),
                  cold_chain_enabled |-> GetOr(cold_chain, "enabled", FALSE)]

\* a QR payload that leaves the errors of an invalid chain out
GenerateQrWithoutErrors(lot_number, file, now) ==
    LET summary == get_chain_summary(lot_number, file, now)
    IN  IF ~summary.valid
        THEN [lot |-> lot_number, valid |-> FALSE, errors |-> <<>>]
        ELSE [lot |-> lot_number,
              chain_length |-> summary.chain_length,
              species |-> summary.species,
              fishery_certified |-> summary.fishery_certified,
              fishery_cert |-> summary.fishery_cert,
              contaminants_pass |-> summary.contaminants_pass,
              potency_verified |-> summary.potency_verified,
              totox |-> summary.totox,
              cold_chain_verified |-> summary.cold_chain_verified,
              yield_normal |-> summary.yield_normal,
              verification_url |-> <<"https://verify.fishoilproof.io/", lot_number>>]

\* the JSON object of the QR code
generate_qr_payload(lot_number, file, now) ==
    LET summary == get_chain_summary(lot_number, file, now)
    IN  IF ~summary.valid
        THEN [lot |-> lot_number, valid |-> FALSE, errors |-> summary.errors]
        ELSE [lot |-> lot_number,
              chain_length |-> summary.chain_length,
              species |-> summary.species,
              fishery_certified |-> summary.fishery_certified,
              fishery_cert |-> summary.fishery_cert,
              contaminants_pass |-> summary.contaminants_pass,
              potency_verified |-> summary.potency_verified,
              totox |-> summary.totox,
              cold_chain_verified |-> summary.cold_chain_verified,
              yield_normal |-> summary.yield_normal,
              verification_url |-> <<"https://verify.fishoilproof.io/", lot_number>>]

\* the receipts that pass every filter given; a filter that is None or ""
\* is not applied
tool_query_receipts(receipt_type, lot_number, batch_id, file) ==
    SelectSeq(load_ledger(file),
        LAMBDA r : /\ FalsyText(receipt_type) \/ Get(r, "receipt_type") = receipt_type
                   /\ FalsyText(lot_number) \/ Get(r, "lot_number") = lot_number
                   /\ FalsyText(batch_id) \/ Get(r, "batch_id") = batch_id)

\* the anomalies tool_run_fraud_checks emits for a lot: none when verify_chain
\* collected no receipt
tool_run_fraud_checks(lot_number, file, now) ==
    LET chain_result == verify_chain(lot_number, file, now)
    IN  IF chain_result.receipts = <<>> THEN <<>>
        ELSE run_all_fraud_checks(DictValues(chain_result.receipts), now)

-----------------------------------------------------------------------------
(* Inputs the callers pass *)

GoodCertHash == <<"S", "2", ":", "B", "3">>

BadCertHash == <<"S", "2", "B", "3">>

\* a well-formed hash that no receipt carries
BogusHash == dual_hash([bogus |-> TRUE])

CatchInput(species, cert_type, cert_hash) ==
    [species |-> species, fishery_registry |-> "PRODUCE Peru",
     import_docs_hash |-> GoodCertHash, fishery_cert_type |-> cert_type,
     fishery_cert_id |-> None, fishery_cert_hash |-> cert_hash,
     tenant_id |-> None]

ProcessingInput(cert_type, method, cert_hash, input_kg, output_kg, previous_hash) ==
    [facility_id |-> "FAC-01", facility_name |-> "Facility",
     gmp_cert_type |-> cert_type, gmp_cert_id |-> "NSF-001",
     gmp_cert_hash |-> cert_hash, batch_id |-> "BP-01",
     extraction_method |-> method, extraction_temp_c |-> 240000,
     yield_input_kg |-> input_kg, yield_output_kg |-> output_kg,
     previous_hash |-> previous_hash, tenant_id |-> None]

TestingInput(cert_type, cert_hash, hg, pcbs, dioxins, epa, peroxide, anisidine, prev) ==
    [lab_name |-> "Lab", lab_cert_type |-> cert_type, lab_cert_id |-> "ISO-001",
     lab_cert_hash |-> cert_hash, batch_id |-> "BP-01",
     mercury_ppm |-> hg, pcbs_ppm |-> pcbs, dioxins_pg_per_g |-> dioxins,
     epa_mg |-> epa, dha_mg |-> 300000, label_claim_mg |-> 700000,
     peroxide_meq_per_kg |-> peroxide, anisidine |-> anisidine,
     previous_hash |-> prev, tenant_id |-> None]

EncapsulationInput(cert_type, cert_hash, lot_number, fill_date, previous_hash) ==
    [facility_id |-> "BOT-01", facility_name |-> "Bottling",
     facility_cert_type |-> cert_type, facility_cert_id |-> "NSF-BOT-001",
     facility_cert_hash |-> cert_hash, lot_number |-> lot_number,
     fill_date |-> fill_date, batch_id |-> "BP-01", capsule_count |-> 90,
     mg_per_capsule |-> 1000000, previous_hash |-> previous_hash,
     tenant_id |-> None]

DistributionInput(lot_number, cold_chain_data, previous_hash) ==
    [distributor_id |-> "DIST-01", distributor_name |-> "Dist",
     warehouse_id |-> "WH-01", warehouse_location |-> "City",
     lot_number |-> lot_number, cold_chain_data |-> cold_chain_data,
     previous_hash |-> previous_hash, tenant_id |-> None]

-----------------------------------------------------------------------------
(* State machine *)

Call(op, in, out) == [op |-> op, in |-> in, out |-> out]

NoSession == [stage |-> 0, prev |-> <<>>, lot |-> ""]

Init ==
    /\ ledger = <<>>
    /\ clock = 0
    /\ last = Call("init", [none |-> TRUE], Raise("", None))
    /\ sess = [c \in Callers |-> NoSession]
    /\ faults = 0

\* the ledger after a call with outcome out
Persist(file, out) ==
    IF out.receipt = None THEN file
    ELSE WriteLine(file, ReceiptLine(out.receipt[1]))

\* the hash a caller takes from the receipt a call returned (or, after a
\* regulatory stop, from the StopRule message)
HashOf(out) == DictGet(out.receipt[1], "payload_hash")

\* previous_hash values a caller may pass: the one it holds (the hash its
\* call for the stage before returned), or, while the fault budget lasts, an
\* empty one, one no receipt carries, or the hash of the first receipt of the
\* ledger; faults counts the calls that passed another hash than the one held
PrevChoices(c) ==
    {sess[c].prev} \cup
    (IF faults < MaxFaults
     THEN {<<>>, BogusHash}
          \cup {ledger[i]["payload_hash"] : i \in DOMAIN ledger \cap {1}}
     ELSE {})

\* A stage call by caller c: on an emitted receipt the caller moves on to the
\* next stage holding the receipt's hash
StageCall(c, op, in, out, lot) ==
    /\ Len(Persist(ledger, out)) <= MaxLedger
    /\ ledger' = Persist(ledger, out)
    /\ last' = Call(op, in, out)
    /\ sess' = IF out.receipt = None THEN sess
               ELSE [sess EXCEPT ![c] = [stage |-> @.stage + 1,
                                         prev |-> HashOf(out), lot |-> lot]]
    /\ faults' = IF op # "create_catch_receipt" /\ in.previous_hash # sess[c].prev
                 THEN faults + 1 ELSE faults
    /\ UNCHANGED clock

Tick ==
    /\ clock < MaxClock
    /\ clock' = clock + 1
    /\ UNCHANGED <<ledger, last, sess, faults>>

\* A step's flag any tells whether the validator is passed any input or only
\* inputs it accepts.
\* Inputs of the stage calls: those every validator accepts, and those that
\* also take the validators through their failure branches
ValidCatch == {CatchInput("Engraulis ringens", "MSC", Some(GoodCertHash))}

AnyCatch ==
    ValidCatch \cup {CatchInput("Engraulis ringens", "MSC", None),
                     CatchInput("Engraulis ringens", "Organic", None),
                     CatchInput("Carassius auratus", "None", None)}

ValidProcessing(prev) ==
    {ProcessingInput("NSF", "MolecularDistillation", GoodCertHash,
                     1000000, 150000, prev)}

AnyProcessing(prev) ==
    ValidProcessing(prev) \cup
    {ProcessingInput("NSF", "MolecularDistillation", GoodCertHash, 0, 150000, prev),
     ProcessingInput("NSF", "MolecularDistillation", GoodCertHash, 1000000, 0, prev),
     ProcessingInput("NSF", "MolecularDistillation", GoodCertHash, -1000, 150000, prev),
     ProcessingInput("ISO", "MolecularDistillation", GoodCertHash, 1000000, 150000, prev),
     ProcessingInput("NSF", "ColdPress", GoodCertHash, 1000000, 150000, prev),
     ProcessingInput("NSF", "MolecularDistillation", BadCertHash, 1000000, 150000, prev)}

\* a sample within every ceiling; among the others, one with mercury above
\* its ceiling
ValidTesting(prev) ==
    {TestingInput("ISO17025", GoodCertHash, 20, 30, 1200, 420000, 3000, 10000, prev)}

AnyTesting(prev) ==
    ValidTesting(prev) \cup
    {TestingInput("ISO17025", GoodCertHash, 150, 30, 1200, 420000, 3000, 10000, prev),
     TestingInput("ISO17025", BadCertHash, 150, 30, 1200, 420000, 3000, 10000, prev),
     TestingInput("GLP", GoodCertHash, 20, 30, 1200, 420000, 3000, 10000, prev)}

ValidEncapsulation(lot, prev) ==
    {EncapsulationInput("NSF", GoodCertHash, lot, "2025-01-31T14:00:00Z", prev)}

AnyEncapsulation(lot, prev) ==
    ValidEncapsulation(lot, prev) \cup
    {EncapsulationInput("NSF", GoodCertHash, lot, "31 January", prev),
     EncapsulationInput("GMP", GoodCertHash, lot, "2025-01-31T14:00:00Z", prev),
     EncapsulationInput("NSF", BadCertHash, lot, "2025-01-31T14:00:00Z", prev)}

\* callers are interchangeable: the second one starts after the first
CatchStep(c, any) ==
    /\ sess[c].stage = 0
    /\ \A b \in Callers : b < c => sess[b].stage > 0
    /\ \E in \in (IF any THEN AnyCatch ELSE ValidCatch) :
           StageCall(c, "create_catch_receipt", in,
                     create_catch_receipt(in, clock), "")

ProcessingStep(c, any) ==
    /\ sess[c].stage = 1
    /\ \E prev \in PrevChoices(c) :
       \E in \in (IF any THEN AnyProcessing(prev) ELSE ValidProcessing(prev)) :
           StageCall(c, "create_processing_receipt", in,
                     create_processing_receipt(in, clock), "")

TestingStep(c, any) ==
    /\ sess[c].stage = 2
    /\ \E prev \in PrevChoices(c) :
       \E in \in (IF any THEN AnyTesting(prev) ELSE ValidTesting(prev)) :
           StageCall(c, "create_testing_receipt", in,
                     create_testing_receipt(in, clock), "")

EncapsulationStep(c, any) ==
    /\ sess[c].stage = 3
    /\ \E prev \in PrevChoices(c), lot \in Lots :
       \E in \in (IF any THEN AnyEncapsulation(lot, prev)
                   ELSE ValidEncapsulation(lot, prev)) :
           StageCall(c, "create_encapsulation_receipt", in,
                     create_encapsulation_receipt(in, ledger, clock), lot)

DistributionStep(c) ==
    /\ sess[c].stage = 4
    /\ \E prev \in PrevChoices(c) :
       \E lot \in Lots :
           LET in == DistributionInput(lot, None, prev)
           IN  StageCall(c, "create_distribution_receipt", in,
                         create_distribution_receipt(in, clock), sess[c].lot)

\* previous_hash passed by a direct call: the hash of the last line, or, on
\* an empty ledger, one that no receipt carries
PrevDirect ==
    IF ledger = <<>> THEN {BogusHash} ELSE {ledger[Len(ledger)]["payload_hash"]}

\* A party that holds no session records the encapsulation or the
\* distribution of a lot, passing a hash it did not get from a stage call
StrayStep(any) ==
    /\ faults < MaxFaults
    /\ \E lot \in Lots, prev \in PrevDirect :
         \/ \E in \in (IF any THEN AnyEncapsulation(lot, prev)
                         ELSE ValidEncapsulation(lot, prev)) :
                LET out == create_encapsulation_receipt(in, ledger, clock)
                IN  /\ Len(Persist(ledger, out)) <= MaxLedger
                    /\ ledger' = Persist(ledger, out)
                    /\ last' = Call("create_encapsulation_receipt", in, out)
         \/ LET in == DistributionInput(lot, None, prev)
                out == create_distribution_receipt(in, clock)
            IN  /\ Len(Persist(ledger, out)) <= MaxLedger
                /\ ledger' = Persist(ledger, out)
                /\ last' = Call("create_distribution_receipt", in, out)
    /\ faults' = faults + 1
    /\ UNCHANGED <<clock, sess>>

\* a reader that keeps what it returned as a line of the ledger
QueryStoringResult(op, in, out) ==
    /\ last' = Call(op, in, out)
    /\ ledger' = Append(ledger, [receipt_type |-> "chain", lot_number |-> in.lot_number])
    /\ UNCHANGED <<clock, sess, faults>>

\* Operations that only read the ledger
Query(op, in, out) ==
    /\ last' = Call(op, in, out)
    /\ UNCHANGED <<ledger, clock, sess, faults>>

VerifyChain ==
    \E lot \in Lots :
        Query("verify_chain", [lot_number |-> lot], verify_chain(lot, ledger, clock))

\* Callers building chains stage by stage through the validators
StagesNext ==
    \/ Tick
    \/ \E c \in Callers : CatchStep(c, FALSE)
    \/ \E c \in Callers : ProcessingStep(c, FALSE)
    \/ \E c \in Callers : TestingStep(c, FALSE)
    \/ \E c \in Callers : EncapsulationStep(c, FALSE)
    \/ \E c \in Callers : DistributionStep(c)
    \/ StrayStep(FALSE)

SpecStages == Init /\ [][StagesNext]_vars

\* The same callers, passing the validators any input, all within one
\* reading of the clock
ValidatorsNext ==
    \/ \E c \in Callers : CatchStep(c, TRUE)
    \/ \E c \in Callers : ProcessingStep(c, TRUE)
    \/ \E c \in Callers : TestingStep(c, TRUE)
    \/ \E c \in Callers : EncapsulationStep(c, TRUE)
    \/ \E c \in Callers : DistributionStep(c)
    \/ StrayStep(TRUE)

SpecValidators == Init /\ [][ValidatorsNext]_vars

-----------------------------------------------------------------------------
(* Every operation on the ledger, called directly in any order *)

\* An operation that may append: the outcome's receipt, if any, is written
Direct(op, in, out) ==
    /\ Len(Persist(ledger, out)) <= MaxLines
    /\ ledger' = Persist(ledger, out)
    /\ last' = Call(op, in, out)
    /\ UNCHANGED <<clock, sess, faults>>

\* Payloads handed to emit_receipt: the one of cli.py's cmd_test, a free-form
\* value given as a str and as an object json cannot serialise, and payloads
\* that use a key emit_receipt sets itself
CmdTestPayload ==
    << <<"message", "FishOilProof test receipt">>,
       <<"dual_hash_check", dual_hash([bytes |-> "test"])>> >>

Payloads ==
    { CmdTestPayload,
      << <<"note", [py |-> "str", text |-> "2025-01-31"]>> >>,
      << <<"note", [py |-> "object", text |-> "2025-01-31"]>> >>,
      << <<"payload_hash", BogusHash>> >>,
      << <<"merkle_root", Blake3("supplied")>> >>,
      << <<"ts", 7>> >> }

EmitInputs ==
    [receipt_type : {"test"}, payload : Payloads, tenant_id : {None}]
    \cup {[receipt_type |-> "catch", payload |-> CmdTestPayload, tenant_id |-> None],
          [receipt_type |-> "test", payload |-> CmdTestPayload,
           tenant_id |-> Some("tenant-b")]}

EmitReceipt ==
    \E in \in EmitInputs :
        Direct("emit_receipt", in,
               Return(emit_receipt(in.receipt_type, in.payload, in.tenant_id, clock)))

CreateCatch ==
    \E in \in AnyCatch :
        Direct("create_catch_receipt", in, create_catch_receipt(in, clock))

CreateProcessing ==
    \E prev \in PrevDirect : \E in \in AnyProcessing(prev) :
        Direct("create_processing_receipt", in, create_processing_receipt(in, clock))

CreateTesting ==
    \E prev \in PrevDirect : \E in \in AnyTesting(prev) :
        Direct("create_testing_receipt", in, create_testing_receipt(in, clock))

CreateEncapsulation ==
    \E prev \in PrevDirect, lot \in Lots : \E in \in AnyEncapsulation(lot, prev) :
        Direct("create_encapsulation_receipt", in,
               create_encapsulation_receipt(in, ledger, clock))

\* readings of a shipment that left the 2-8 C band
WarmShipment == Some(validate_cold_chain(<<4000, 9500>>, 3, None))

CreateDistribution ==
    \E prev \in PrevDirect, lot \in Lots, cold_chain_data \in {None, WarmShipment} :
        LET in == DistributionInput(lot, cold_chain_data, prev)
        IN  Direct("create_distribution_receipt", in,
                   create_distribution_receipt(in, clock))

GetChainSummary ==
    \E lot \in Lots :
        Query("get_chain_summary", [lot_number |-> lot],
              get_chain_summary(lot, ledger, clock))

GenerateQrPayload ==
    \E lot \in Lots :
        Query("generate_qr_payload", [lot_number |-> lot],
              generate_qr_payload(lot, ledger, clock))

\* writes that keep only the last of the lines
WriteLast(file, lines) ==
    IF lines = <<>> THEN file ELSE Append(file, lines[Len(lines)])

\* An operation that emits a list of anomaly receipts, each one appended
RECURSIVE WriteAll(_, _)
WriteAll(file, lines) ==
    IF lines = <<>> THEN file
    ELSE WriteAll(WriteLine(file, Head(lines)), Tail(lines))

EmitAll(op, in, anomalies) ==
    LET lines == [i \in DOMAIN anomalies |-> ReceiptLine(anomalies[i])]
    IN  /\ Len(ledger) + Len(lines) <= MaxLines
        /\ ledger' = WriteAll(ledger, lines)
        /\ last' = Call(op, in, [anomalies |-> anomalies])
        /\ UNCHANGED <<clock, sess, faults>>

\* one detector applied to one receipt of the ledger
Detect ==
    \E i \in DOMAIN ledger :
        LET receipt == load_ledger(ledger)[i]
        IN  \/ EmitAll("detect_yield_anomaly", [line |-> i],
                       detect_yield_anomaly(receipt, clock))
            \/ EmitAll("detect_label_fraud", [line |-> i],
                       detect_label_fraud(receipt, clock))
            \/ EmitAll("detect_contaminant_exceed", [line |-> i],
                       detect_contaminant_exceed(receipt, clock))
            \/ EmitAll("detect_cold_chain_degradation", [line |-> i],
                       detect_cold_chain_degradation(receipt, clock))

\* run_all_fraud_checks on the receipts verify_chain collected for a lot
RunAllFraudChecks ==
    \E lot \in Lots :
        EmitAll("run_all_fraud_checks", [lot_number |-> lot],
                tool_run_fraud_checks(lot, ledger, clock))

\* all of it within one reading of the clock
Next ==
    \/ EmitReceipt
    \/ CreateCatch
    \/ CreateProcessing
    \/ CreateTesting
    \/ CreateEncapsulation
    \/ CreateDistribution
    \/ VerifyChain
    \/ GetChainSummary
    \/ GenerateQrPayload
    \/ Detect
    \/ RunAllFraudChecks

Spec == Init /\ [][Next]_vars

-----------------------------------------------------------------------------
(* A laboratory submitting samples *)

\* contaminant readings (mercury, PCBs, dioxins): low, at the ceilings, each
\* one just above its ceiling, all above
ContaminantReadings ==
    {<<20, 30, 1200>>, <<100, 90, 3000>>, <<101, 30, 1200>>, <<20, 91, 1200>>,
     <<20, 30, 3001>>, <<150, 95, 3500>>}

\* oxidation readings (peroxide, anisidine): fresh; TOTOX exactly 26.0, 26.004
\* and 26.006; anisidine above its ceiling; peroxide above its ceiling
OxidationReadings ==
    {<<3000, 10000>>, <<5000, 16000>>, <<5000, 16004>>, <<5000, 16006>>,
     <<5000, 20001>>, <<5001, 10000>>}

Sample(cert_type, cert_hash, c, o) ==
    TestingInput(cert_type, cert_hash, c[1], c[2], c[3], 420000, o[1], o[2], BogusHash)

Samples ==
    {Sample("ISO17025", GoodCertHash, c, <<3000, 10000>>) : c \in ContaminantReadings}
    \cup {Sample("Other", GoodCertHash, <<20, 30, 1200>>, o) : o \in OxidationReadings}
    \cup {Sample("Other", GoodCertHash, <<150, 95, 3500>>, <<5000, 16006>>),
          Sample("GLP", GoodCertHash, <<101, 30, 1200>>, <<3000, 10000>>),
          Sample("ISO17025", BadCertHash, <<20, 91, 1200>>, <<3000, 10000>>),
          Sample("GLP", GoodCertHash, <<20, 30, 1200>>, <<5000, 16006>>)}

SubmitSample ==
    \E in \in Samples :
        Direct("create_testing_receipt", in, create_testing_receipt(in, clock))

TestingNext == Tick \/ SubmitSample

SpecTesting == Init /\ [][TestingNext]_vars

-----------------------------------------------------------------------------
(* One lot taken through the five stages, and the fraud checks run on it *)

MaxAnomalies == 4    \* anomaly lines in the ledger

\* batches with a low, a normal and a high yield
YieldBatches(prev) ==
    {ProcessingInput("NSF", "MolecularDistillation", GoodCertHash, 100000, output_kg, prev) :
        output_kg \in {10000, 15000, 22000}}

\* samples: clean; potency below 95 percent of the claim; mercury above its
\* ceiling; both
LabSamples(prev) ==
    {TestingInput("ISO17025", GoodCertHash, hg, 30, 1200, epa, 3000, 10000, prev) :
        hg \in {20, 150}, epa \in {420000, 300000}}

\* shipments: not tracked; one reading above 8 C; four readings below 2 C
ColdShipment == Some(validate_cold_chain(<<1000, 1500, 1000, 1900>>, 3, None))

Shipments == {None, WarmShipment, ColdShipment}

FraudLot == "LOT-A"

RecordCatch ==
    /\ sess[1].stage = 0
    /\ \E in \in ValidCatch :
           StageCall(1, "create_catch_receipt", in, create_catch_receipt(in, clock), "")

RecordProcessing ==
    /\ sess[1].stage = 1
    /\ \E in \in YieldBatches(sess[1].prev) :
           StageCall(1, "create_processing_receipt", in,
                     create_processing_receipt(in, clock), "")

RecordTesting ==
    /\ sess[1].stage = 2
    /\ \E in \in LabSamples(sess[1].prev) :
           StageCall(1, "create_testing_receipt", in,
                     create_testing_receipt(in, clock), "")

RecordEncapsulation ==
    /\ sess[1].stage = 3
    /\ \E in \in ValidEncapsulation(FraudLot, sess[1].prev) :
           StageCall(1, "create_encapsulation_receipt", in,
                     create_encapsulation_receipt(in, ledger, clock), FraudLot)

RecordDistribution ==
    /\ sess[1].stage = 4
    /\ \E cold_chain_data \in Shipments :
           LET in == DistributionInput(FraudLot, cold_chain_data, sess[1].prev)
           IN  StageCall(1, "create_distribution_receipt", in,
                         create_distribution_receipt(in, clock), FraudLot)

AnomalyLines(file) == {i \in DOMAIN file : GetType(file[i]) = "anomaly"}

\* a call that emits anomaly receipts: each one is appended as it is emitted
EmitAnomalies(op, in, anomalies) ==
    LET lines == [i \in DOMAIN anomalies |-> ReceiptLine(anomalies[i])]
    IN  /\ Cardinality(AnomalyLines(ledger)) + Len(lines) <= MaxAnomalies
        /\ ledger' = WriteAll(ledger, lines)
        /\ last' = Call(op, in, [anomalies |-> anomalies])
        /\ UNCHANGED <<clock, sess, faults>>

\* run_all_fraud_checks(list(chain_result["receipts"].values())), as cli.py,
\* mcp_server.py and sim.py call it
CheckCollected ==
    LET chain == DictValues(verify_chain(FraudLot, ledger, clock).receipts)
    IN  EmitAnomalies("run_all_fraud_checks", [chain |-> chain],
                      run_all_fraud_checks(chain, clock))

\* run_all_fraud_checks on the receipts in the order they were recorded
CheckRecorded ==
    LET chain == load_ledger(ledger)
    IN  EmitAnomalies("run_all_fraud_checks", [chain |-> chain],
                      run_all_fraud_checks(chain, clock))

FraudNext ==
    \/ RecordCatch
    \/ RecordProcessing
    \/ RecordTesting
    \/ RecordEncapsulation
    \/ RecordDistribution
    \/ CheckCollected
    \/ CheckRecorded

SpecFraud == Init /\ [][FraudNext]_vars

-----------------------------------------------------------------------------
(* The tool server over the ledger of one lot *)

\* the lot that is recorded and one that is not
ToolLots == {FraudLot, "LOT-B"}

ToolQueryReceipts ==
    \E receipt_type \in {None, Some(""), Some("testing")} :
    \E lot_number \in {None, Some(FraudLot)} :
    \E batch_id \in {None, Some("BP-01")} :
        Query("tool_query_receipts",
              [receipt_type |-> receipt_type, lot_number |-> lot_number,
               batch_id |-> batch_id],
              tool_query_receipts(receipt_type, lot_number, batch_id, ledger))

ToolVerifyChain ==
    \E lot \in ToolLots :
        Query("tool_verify_chain", [lot_number |-> lot], verify_chain(lot, ledger, clock))

ToolGetSummary ==
    \E lot \in ToolLots :
        Query("tool_get_summary", [lot_number |-> lot],
              get_chain_summary(lot, ledger, clock))

ToolGenerateQr ==
    \E lot \in ToolLots :
        Query("tool_generate_qr", [lot_number |-> lot],
              generate_qr_payload(lot, ledger, clock))

\* the detectors emit as run_all_fraud_checks goes through the receipts
ToolRunFraudChecks ==
    \E lot \in ToolLots :
        EmitAnomalies("tool_run_fraud_checks", [lot_number |-> lot],
                      tool_run_fraud_checks(lot, ledger, clock))

ToolsNext ==
    \/ RecordCatch
    \/ RecordProcessing
    \/ RecordTesting
    \/ RecordEncapsulation
    \/ RecordDistribution
    \/ ToolQueryReceipts
    \/ ToolVerifyChain
    \/ ToolGetSummary
    \/ ToolGenerateQr
    \/ ToolRunFraudChecks

SpecTools == Init /\ [][ToolsNext]_vars

-----------------------------------------------------------------------------
(* One lot whose sample the laboratory may have stopped *)

\* samples with TOTOX above 26, the contaminants within and above their
\* ceilings
RancidSamples(prev) ==
    {TestingInput("ISO17025", GoodCertHash, hg, 30, 1200, 420000, 5000, 16006, prev) :
        hg \in {20, 150}}

\* the caller goes on with the hash of the receipt, returned or carried by
\* the StopRule message
RecordLabResult ==
    /\ sess[1].stage = 2
    /\ \E in \in LabSamples(sess[1].prev) \cup RancidSamples(sess[1].prev) :
           StageCall(1, "create_testing_receipt", in,
                     create_testing_receipt(in, clock), "")

StoppedNext ==
    \/ RecordCatch
    \/ RecordProcessing
    \/ RecordLabResult
    \/ RecordEncapsulation
    \/ RecordDistribution
    \/ VerifyChain

SpecStopped == Init /\ [][StoppedNext]_vars

-----------------------------------------------------------------------------
(* Two callers inside create_encapsulation_receipt at once *)

Idle == [pc |-> "idle"]

\* a call that reads the ledger again when it is about to append
ExistingAtAppend(c) == ledger

\* the receipts the call holds after existing = load_ledger(ledger_path)
Existing(c) == sess[c].existing

InitRacing ==
    /\ ledger = <<>>
    /\ clock = 0
    /\ last = Call("init", [none |-> TRUE], Raise("", None))
    /\ sess = [c \in Callers |-> Idle]
    /\ faults = 0

\* the certificate checks come before the ledger is read
RefusedBeforeScan(in) ==
    \/ in.facility_cert_type \notin FACILITY_CERT_TYPES
    \/ ~HasSeparator(in.facility_cert_hash)

\* the call up to and including existing = load_ledger(ledger_path); a call
\* the certificate checks refuse ends here
ScanLedger(c) ==
    /\ sess[c].pc = "idle"
    /\ Len(ledger) + Cardinality({d \in Callers : sess[d].pc = "scanned"}) < MaxLines
    /\ \E lot \in Lots : \E in \in AnyEncapsulation(lot, BogusHash) :
           IF RefusedBeforeScan(in)
           THEN /\ last' = Call("create_encapsulation_receipt", in,
                                 create_encapsulation_receipt(in, ledger, clock))
                /\ UNCHANGED sess
           ELSE /\ sess' = [sess EXCEPT ![c] =
                                [pc |-> "scanned", in |-> in, existing |-> ledger]]
                /\ UNCHANGED last
    /\ UNCHANGED <<ledger, clock, faults>>

\* the rest of the call: the loop over existing, the fill date, emit_receipt
AppendReceipt(c) ==
    /\ sess[c].pc = "scanned"
    /\ LET out == create_encapsulation_receipt(sess[c].in, Existing(c), clock)
       IN  /\ ledger' = Persist(ledger, out)
           /\ last' = Call("create_encapsulation_receipt", sess[c].in, out)
    /\ sess' = [sess EXCEPT ![c] = Idle]
    /\ UNCHANGED <<clock, faults>>

RacingNext ==
    \/ \E c \in Callers : ScanLedger(c)
    \/ \E c \in Callers : AppendReceipt(c)

SpecRacing == InitRacing /\ [][RacingNext]_vars

-----------------------------------------------------------------------------
(* One lot recorded while others append to the same ledger *)

\* the stages of the lot, the fraud checks, and a party outside the session
\* that records an encapsulation or a distribution for this lot or another
AppendsNext ==
    \/ FraudNext
    \/ StrayStep(FALSE)

SpecAppends == Init /\ [][AppendsNext]_vars

-----------------------------------------------------------------------------
(* One receipt recorded on an empty ledger, and the detectors run on it *)

\* batches of 100 kg and 50 kg of fish: yields below, at, between, and above
\* 12 and 18 percent
YieldInputs ==
    {ProcessingInput("NSF", "Winterization", GoodCertHash, 100000, output_kg, BogusHash) :
        output_kg \in {5000, 11999, 12000, 12001, 15000, 17999, 18000, 18001, 22000}}
    \cup {ProcessingInput("USP", "SupercriticalCO2", GoodCertHash, 50000, output_kg, BogusHash) :
            output_kg \in {5999, 6000, 9000, 9001}}

\* samples: every contaminant reading with a potency above, at, just below
\* and well below 95 percent of the 700 mg claim
FraudSamples ==
    {TestingInput("ISO17025", GoodCertHash, c[1], c[2], c[3], epa, 3000, 10000, BogusHash) :
        c \in ContaminantReadings, epa \in {420000, 365000, 364999, 300000}}

\* temperature logs of up to four readings around the 2-8 C band
MaxReadings == 4

Readings == {1999, 2000, 8000, 8004, 8006}

\* the logs that never fall or never rise
TempLogs ==
    {temps \in UNION {[1..n -> Readings] : n \in 0..MaxReadings} :
        \/ \A i \in 1..(Len(temps) - 1) : temps[i] <= temps[i + 1]
        \/ \A i \in 1..(Len(temps) - 1) : temps[i] >= temps[i + 1]}

\* the receipts tests/test_fraud.py builds by hand
CraftedTesting(potency_pass, total_mg, contaminants_pass) ==
    [receipt_type |-> "testing", tenant_id |-> "test",
     potency |-> [potency_pass |-> potency_pass, total_omega3_mg |-> total_mg,
                  label_claim_mg |-> 700000,
                  epa_mg |-> RoundDiv(total_mg * 583, 1000),
                  dha_mg |-> RoundDiv(total_mg * 417, 1000)],
     contaminants |-> [all_pass |-> contaminants_pass, mercury_pass |-> contaminants_pass,
                       pcbs_pass |-> contaminants_pass,
                       dioxins_pass |-> contaminants_pass,
                       mercury_ppm |-> IF contaminants_pass THEN 20 ELSE 150,
                       pcbs_ppm |-> 30, dioxins_pg_per_g |-> 1200],
     payload_hash |-> dual_hash([bytes |-> "test_testing"])]

CraftedDistribution(enabled, max_temp, deviations) ==
    [receipt_type |-> "distribution", tenant_id |-> "test",
     cold_chain |-> [enabled |-> enabled, max_temp_c |-> max_temp,
                     avg_temp_c |-> IF max_temp = None THEN None
                                    ELSE Some(max_temp[1] - 1000),
                     deviations_count |-> deviations],
     payload_hash |-> dual_hash([bytes |-> "test_distribution"])]

CraftedReceipts ==
    {CraftedTesting(TRUE, 720000, TRUE), CraftedTesting(FALSE, 600000, TRUE),
     CraftedTesting(TRUE, 720000, FALSE), CraftedTesting(FALSE, 600000, FALSE),
     CraftedDistribution(FALSE, None, 0), CraftedDistribution(TRUE, Some(4000), 0),
     CraftedDistribution(TRUE, Some(12000), 1), CraftedDistribution(TRUE, Some(7000), 5),
     CraftedDistribution(TRUE, Some(7000), 3), CraftedDistribution(TRUE, Some(12000), 5),
     CraftedDistribution(FALSE, Some(12000), 5)}

\* a stage call on the empty ledger
RecordOne(op, in, out) ==
    /\ ledger = <<>>
    /\ ledger' = Persist(ledger, out)
    /\ last' = Call(op, in, out)
    /\ UNCHANGED <<clock, sess, faults>>

ProcessBatch ==
    \E in \in YieldInputs :
        RecordOne("create_processing_receipt", in, create_processing_receipt(in, clock))

SubmitLabSample ==
    \E in \in FraudSamples :
        RecordOne("create_testing_receipt", in, create_testing_receipt(in, clock))

ShipLot ==
    \E temps \in TempLogs :
        LET in == DistributionInput(FraudLot, Some(validate_cold_chain(temps, 90, None)),
                                    BogusHash)
        IN  RecordOne("create_distribution_receipt", in,
                      create_distribution_receipt(in, clock))

\* validate_cold_chain called on its own
ValidateColdChain ==
    /\ ledger = <<>>
    /\ \E temps \in TempLogs :
           last' = Call("validate_cold_chain", [temps |-> temps],
                        validate_cold_chain(temps, 90, None))
    /\ UNCHANGED <<ledger, clock, sess, faults>>

\* the receipts a check is run on: the one recorded, or one built by hand
Checkable ==
    IF ledger = <<>> THEN CraftedReceipts ELSE {load_ledger(ledger)[1]}

\* one detector, or all checks, on one receipt that no check has seen yet
CheckOne ==
    /\ Len(ledger) <= 1
    /\ \E receipt \in Checkable :
           \/ EmitAnomalies("detect_yield_anomaly", [receipt |-> receipt],
                            detect_yield_anomaly(receipt, clock))
           \/ EmitAnomalies("detect_label_fraud", [receipt |-> receipt],
                            detect_label_fraud(receipt, clock))
           \/ EmitAnomalies("detect_contaminant_exceed", [receipt |-> receipt],
                            detect_contaminant_exceed(receipt, clock))
           \/ EmitAnomalies("detect_cold_chain_degradation", [receipt |-> receipt],
                            detect_cold_chain_degradation(receipt, clock))
           \/ EmitAnomalies("run_all_fraud_checks", [chain |-> <<receipt>>],
                            run_all_fraud_checks(<<receipt>>, clock))

DetectorsNext ==
    \/ ProcessBatch
    \/ SubmitLabSample
    \/ ShipLot
    \/ ValidateColdChain
    \/ CheckOne

SpecDetectors == Init /\ [][DetectorsNext]_vars

-----------------------------------------------------------------------------
(* Catches landed and receipts emitted at different times *)

\* catches of an approved species and of one that is not, under every
\* certification type and one that is not, without a certificate hash, with
\* an empty one and with one
CatchLandings ==
    {CatchInput(species, cert_type, cert_hash) :
        species \in {"Gadus morhua", "Carassius auratus"},
        cert_type \in {"MSC", "FriendOfSea", "None", "Organic"},
        cert_hash \in {None, Some(<<>>), Some(GoodCertHash)}}

LandCatch ==
    \E in \in CatchLandings :
        Direct("create_catch_receipt", in, create_catch_receipt(in, clock))

MaxItems == 5    \* items of a list given to merkle_root

\* lists of the strings "0" and "cat", kept as sequences of characters
MerkleLists == UNION {[1..n -> {<<"0">>, <<"c", "a", "t">>}] : n \in 0..MaxItems}

\* merkle_root called on its own
ComputeMerkleRoot ==
    /\ ledger = <<>>
    /\ \E items \in MerkleLists :
           last' = Call("merkle_root", [items |-> items], [root |-> merkle_root(items)])
    /\ UNCHANGED <<ledger, clock, sess, faults>>

CoreNext ==
    \/ Tick
    \/ LandCatch
    \/ EmitReceipt
    \/ ComputeMerkleRoot

SpecCore == Init /\ [][CoreNext]_vars

-----------------------------------------------------------------------------
(* Rewriting one stored line: one field of one receipt gets another value *)

HashKeys == {"payload_hash", "previous_hash", "source_receipt_hash", "dual_hash_check"}

NumberKeys ==
    {"ts", "extraction_temp_c", "yield_input_kg", "yield_output_kg", "yield_ratio",
     "yield_expected_min", "yield_expected_max", "capsule_count", "mg_per_capsule"}

BooleanKeys == {"fishery_approved", "overall_pass"}

CharSeqKeys ==
    {"import_docs_hash", "gmp_cert_hash", "lab_cert_hash", "facility_cert_hash"}

OptionalKeys == {"fishery_cert_id", "fishery_cert_hash"}

\* values of the field's own kind that differ from the stored one
OtherValues(k, old) ==
    CASE k \in HashKeys -> {<<>>, BogusHash} \ {old}
      [] k = "merkle_root" -> {Blake3("rewritten")} \ {old}
      [] k \in NumberKeys -> {old + 1}
      [] k \in BooleanKeys -> {~old}
      [] k \in CharSeqKeys -> {<<"x">>, GoodCertHash} \ {old}
      [] k \in OptionalKeys -> {None, Some(<<"x">>)} \ {old}
      [] k = "contaminants" -> {[old EXCEPT !.mercury_ppm = @ + 1]}
      [] k = "potency" -> {[old EXCEPT !.epa_mg = @ + 1]}
      [] k = "oxidation" -> {[old EXCEPT !.oxidation_pass = ~@]}
      [] k = "cold_chain" -> {[old EXCEPT !.cold_chain_pass = ~@]}
      [] k = "details" -> {[old EXCEPT !.message = "rewritten"]}
      [] k \in FreeKeys -> {[json |-> "string", text |-> "rewritten"]} \ {old}
      [] k = "lot_number" -> (Lots \cup {"LOT-X"}) \ {old}
      [] OTHER -> {"rewritten"} \ {old}

Rewrite(file, i, k, v) == [file EXCEPT ![i] = [@ EXCEPT ![k] = v]]

-----------------------------------------------------------------------------
(* A chain built in order, as the ledger shows it *)

IsStage(r, type) == GetType(r) = type

HasLot(r, lot) == Has(r, "lot_number") /\ r["lot_number"] = lot

Links(later, earlier) ==
    /\ Has(later, "previous_hash") /\ Has(earlier, "payload_hash")
    /\ later["previous_hash"] = earlier["payload_hash"]

\* five receipts created in stage order, each passing on the previous hash,
\* the last two carrying lot
BuiltInOrder(file, lot) ==
    \E i5 \in DOMAIN file :
      /\ IsStage(file[i5], "distribution") /\ HasLot(file[i5], lot)
      /\ \E i4 \in 1..(i5 - 1) :
           /\ IsStage(file[i4], "encapsulation") /\ HasLot(file[i4], lot)
           /\ Links(file[i5], file[i4])
           /\ \E i3 \in 1..(i4 - 1) :
                /\ IsStage(file[i3], "testing") /\ Links(file[i4], file[i3])
                /\ \E i2 \in 1..(i3 - 1) :
                     /\ IsStage(file[i2], "processing") /\ Links(file[i3], file[i2])
                     /\ \E i1 \in 1..(i2 - 1) :
                          /\ IsStage(file[i1], "catch")
                          /\ Links(file[i2], file[i1])

\* every other receipt that names a lot names another one
OneChainOfLot(file, lot) ==
    /\ Cardinality({i \in DOMAIN file : HasLot(file[i], lot)}) = 2

\* C5: a chain built in stage order for a lot, each stage passing on the
\* hash of the stage before and the last two stages sharing the lot number,
\* verifies as valid with length 5 and no errors, whatever receipts of other
\* lots the ledger holds.
C5_BuiltChainVerifies ==
    \A lot \in Lots :
        (BuiltInOrder(load_ledger(ledger), lot)
         /\ OneChainOfLot(load_ledger(ledger), lot)) =>
            LET result == verify_chain(lot, ledger, clock)
            IN  /\ result.chain_valid
                /\ result.chain_length = 5
                /\ result.errors = <<>>

C5_Witness ==
    \E lot \in Lots :
        /\ BuiltInOrder(load_ledger(ledger), lot)
        /\ OneChainOfLot(load_ledger(ledger), lot)
        /\ \E i \in DOMAIN ledger : \E other \in Lots \ {lot} :
               HasLot(load_ledger(ledger)[i], other)

Min(S) == CHOOSE m \in S : \A x \in S : m <= x

\* indices of the receipts whose payload_hash is the previous_hash of r
Resolves(r, receipts) ==
    {i \in DOMAIN receipts : Links(r, receipts[i])}

\* The conditions under which a chain counts as valid, read off the ledger:
\* the first distribution and encapsulation receipts of the lot are linked,
\* three further hops resolve to receipts of the expected types, and all
\* five receipts pass hash recomputation
ChainConditions(lot, file) ==
    LET receipts == load_ledger(file)
        Dists == {i \in DOMAIN receipts :
                     IsStage(receipts[i], "distribution") /\ HasLot(receipts[i], lot)}
        Encaps == {i \in DOMAIN receipts :
                      IsStage(receipts[i], "encapsulation") /\ HasLot(receipts[i], lot)}
        Hop(r, type) ==
            /\ Resolves(r, receipts) # {}
            /\ IsStage(receipts[Min(Resolves(r, receipts))], type)
        Back(r) == receipts[Min(Resolves(r, receipts))]
    IN  /\ Dists # {} /\ Encaps # {}
        /\ LET dist == receipts[Min(Dists)]
               encap == receipts[Min(Encaps)]
           IN  /\ Get(dist, "previous_hash") = Get(encap, "payload_hash")
               /\ Hop(encap, "testing")
               /\ Hop(Back(encap), "processing")
               /\ Hop(Back(Back(encap)), "catch")
               /\ \A r \in {dist, encap, Back(encap), Back(Back(encap)),
                             Back(Back(Back(encap)))} : verify_single_receipt(r)

Agrees(lot, file) ==
    verify_chain(lot, file, clock).chain_valid <=> ChainConditions(lot, file)

\* C6: verify_chain reports chain_valid exactly when five receipts were
\* collected, the three hops back from the encapsulation receipt found a
\* testing, a processing and a catch receipt in that order, every link
\* matched and every collected receipt's recomputed hash equals its stored
\* one; on the ledger as written and on the ledger with any one field of
\* any one line rewritten.
C6_ValidIffConditions ==
    \A lot \in Lots :
        /\ Agrees(lot, ledger)
        /\ \A i \in DOMAIN ledger : \A k \in DOMAIN ledger[i] :
               \A v \in OtherValues(k, ledger[i][k]) :
                   Agrees(lot, Rewrite(ledger, i, k, v))

\* a lot whose five receipts were collected although the chain is not valid
C6_Witness ==
    \E lot \in Lots :
        LET result == verify_chain(lot, ledger, clock)
        IN  /\ result.chain_length = 5
            /\ ~result.chain_valid
            /\ ~ChainConditions(lot, ledger)

-----------------------------------------------------------------------------
(* Rewriting a line of a verified chain *)

\* the lines verify_chain collected for lot: for each collected receipt, the
\* first line that holds it
ChainLines(lot, file) ==
    LET receipts == load_ledger(file)
        collected == DictValues(verify_chain(lot, file, clock).receipts)
    IN  {i \in DOMAIN receipts :
            /\ \E j \in DOMAIN collected : collected[j] = receipts[i]
            /\ \A h \in 1..(i - 1) : receipts[h] # receipts[i]}

\* the fields of a line that came from the payload, the link aside
PayloadKeys(line) ==
    DOMAIN line \ {"receipt_type", "ts", "tenant_id", "payload_hash",
                   "merkle_root", "previous_hash"}

\* verify_chain on the rewritten ledger reports an invalid chain and a hash
\* failure for the stage of line i
RewriteDetected(lot, i, k, v) ==
    LET result == verify_chain(lot, Rewrite(ledger, i, k, v), clock)
    IN  /\ ~result.chain_valid
        /\ \E e \in DOMAIN result.errors :
               /\ result.errors[e].msg = "Hash verification failed for"
               /\ result.errors[e].arg = GetType(ledger[i])

-----------------------------------------------------------------------------
(* Links between the stages *)

PrecedingStage(type) ==
    STAGE_ORDER[(CHOOSE n \in DOMAIN STAGE_ORDER : STAGE_ORDER[n] = type) - 1]

\* every receipt of a stage after catch points at an earlier line of the
\* stage before
LinkedToPrecedingStage(file) ==
    LET receipts == load_ledger(file)
    IN  \A i \in DOMAIN receipts :
            GetType(receipts[i]) \in {"processing", "testing", "encapsulation",
                                      "distribution"} =>
                \E j \in 1..(i - 1) :
                    /\ IsStage(receipts[j], PrecedingStage(GetType(receipts[i])))
                    /\ Links(receipts[i], receipts[j])

\* C7 as stated: in every ledger the stage validators produce, each
\* processing, testing, encapsulation and distribution receipt has a
\* previous_hash equal to the payload_hash of an earlier receipt of the
\* stage before.
C7_AlwaysLinked == LinkedToPrecedingStage(ledger)

\* C7: as long as every call passed as previous_hash the payload_hash that
\* the caller's call for the stage before returned, each processing,
\* testing, encapsulation and distribution receipt has a previous_hash equal
\* to the payload_hash of an earlier receipt of the stage before.
C7_LinkedWhenPassedOn == faults = 0 => LinkedToPrecedingStage(ledger)

C7_Witness ==
    /\ faults = 0
    /\ \E i \in DOMAIN ledger : IsStage(ledger[i], "distribution")
    /\ \E i \in DOMAIN ledger : IsStage(ledger[i], "processing")

-----------------------------------------------------------------------------
(* Lot numbers *)

UniqueLots(file) ==
    LET receipts == load_ledger(file)
    IN  \A i, j \in DOMAIN receipts :
            (/\ IsStage(receipts[i], "encapsulation")
             /\ IsStage(receipts[j], "encapsulation")
             /\ HasLot(receipts[i], receipts[j]["lot_number"])) => i = j

\* the step is a call of create_encapsulation_receipt for a lot that an
\* encapsulation receipt of the ledger already carries
DuplicateLotCall ==
    /\ last'.op = "create_encapsulation_receipt"
    /\ LotExists(last'.in.lot_number, load_ledger(ledger))

\* the call passed a facility certificate the validator accepts
CertificateAccepted(in) ==
    /\ in.facility_cert_type \in FACILITY_CERT_TYPES
    /\ HasSeparator(in.facility_cert_hash)

\* C8 as stated: no two encapsulation receipts carry the same lot_number,
\* and every create_encapsulation_receipt call for a lot_number already on
\* an encapsulation receipt raises 'already exists' and appends nothing.
C8_AlwaysAlreadyExists ==
    [][/\ UniqueLots(ledger')
       /\ DuplicateLotCall =>
              /\ last'.out.raised
              /\ last'.out.error.msg = "Lot number already exists"
              /\ ledger' = ledger]_vars

\* C8: after any sequence of validator calls no two encapsulation receipts
\* carry the same lot_number; a create_encapsulation_receipt call for a
\* lot_number already on an encapsulation receipt raises StopRule and appends
\* nothing, and the StopRule is 'already exists' when the facility
\* certificate type and hash passed are ones the validator accepts.
C8_LotsUnique ==
    [][/\ UniqueLots(ledger')
       /\ DuplicateLotCall =>
              /\ last'.out.raised
              /\ ledger' = ledger
              /\ CertificateAccepted(last'.in) =>
                     last'.out.error.msg = "Lot number already exists"]_vars

\* a call for a lot already on an encapsulation receipt was refused
C8_Witness ==
    /\ last.op = "create_encapsulation_receipt"
    /\ last.out.raised
    /\ last.out.error.msg = "Lot number already exists"
    /\ LotExists(last.in.lot_number, load_ledger(ledger))

-----------------------------------------------------------------------------
(* The ledger as a file *)

IsPrefix(before, after) ==
    /\ Len(before) <= Len(after)
    /\ \A i \in DOMAIN before : after[i] = before[i]

\* C1: whatever operation is called (emit_receipt, a validator that succeeds
\* or raises, verify_chain, get_chain_summary, generate_qr_payload, a fraud
\* detector, run_all_fraud_checks), every line that was in the ledger before
\* is in it afterwards at the same position with the same content, and the
\* ledger is no shorter.
C1_AppendOnly == [][IsPrefix(ledger, ledger')]_vars

\* a detector appended its anomaly behind the receipt it examined
C1_Witness ==
    /\ Len(ledger) >= 2
    /\ last.op = "detect_contaminant_exceed"
    /\ last.out.anomalies # <<>>

\* C2 as stated: the receipt emit_receipt appended, read back by load_ledger,
\* passes verify_single_receipt, whatever the receipt type and the payload.
C2_EmittedVerifies ==
    last.op = "emit_receipt" =>
        verify_single_receipt(load_ledger(ledger)[Len(ledger)])

\* the values a field of a line can be changed to: another one of its kind
\* and, for payload_hash, the hash recomputed from the line
TamperValues(line, k) ==
    OtherValues(k, line[k])
    \cup (IF k = "payload_hash"
          THEN {dual_hash(CanonicalBytes(JsonLoads(line)))} \ {line[k]}
          ELSE {})

Undetected(i, k, v) == verify_single_receipt(load_ledger(Rewrite(ledger, i, k, v))[i])

\* C4 as stated: changing the value of any single field of any persisted
\* receipt makes verify_single_receipt return false.
C4_AnyField ==
    \A i \in DOMAIN ledger : \A k \in DOMAIN ledger[i] :
        \A v \in TamperValues(ledger[i], k) : ~Undetected(i, k, v)

\* C4: for a persisted receipt that verify_single_receipt accepts, changing
\* the value of any single field other than merkle_root makes
\* verify_single_receipt return false.
C4_FieldChangeDetected ==
    \A i \in DOMAIN ledger :
        verify_single_receipt(load_ledger(ledger)[i]) =>
            \A k \in DOMAIN ledger[i] \ {"merkle_root"} :
                \A v \in TamperValues(ledger[i], k) : ~Undetected(i, k, v)

\* an accepted receipt with a free-form field, whose rewrite is detected
C4_Witness ==
    \E i \in DOMAIN ledger :
        /\ verify_single_receipt(load_ledger(ledger)[i])
        /\ Has(ledger[i], "note")
        /\ ~Undetected(i, "note", [json |-> "string", text |-> "rewritten"])

-----------------------------------------------------------------------------
(* Regulatory stops of the testing stage *)

AboveCeiling(in) ==
    \/ in.mercury_ppm > LIMITS.mercury_ppm
    \/ in.pcbs_ppm > LIMITS.pcbs_ppm
    \/ in.dioxins_pg_per_g > LIMITS.dioxins_pg_per_g

LabCertificateAccepted(in) ==
    /\ in.lab_cert_type \in LAB_CERT_TYPES
    /\ HasSeparator(in.lab_cert_hash)

\* the step is a call of create_testing_receipt
TestingCall == clock' = clock /\ last'.op = "create_testing_receipt"

\* the call appended exactly one testing receipt and then raised msg with
\* that receipt's hash in it
StoppedAfterEmit(msg) ==
    /\ Len(ledger') = Len(ledger) + 1
    /\ IsPrefix(ledger, ledger')
    /\ IsStage(load_ledger(ledger')[Len(ledger')], "testing")
    /\ last'.out.raised
    /\ last'.out.error.msg = msg
    /\ last'.out.error.arg.receipt_emitted = ledger'[Len(ledger')]["payload_hash"]

\* C9 as stated: whenever create_testing_receipt is given a mercury, PCB or
\* dioxin value above its ceiling, one testing receipt is appended before
\* the StopRule, whose message carries the receipt's hash.
C9_AnyBreach ==
    [][(TestingCall /\ AboveCeiling(last'.in)) =>
           StoppedAfterEmit("CONTAMINANT_EXCEED")]_vars

\* C9: whenever create_testing_receipt is given an accepted lab certificate
\* type and hash and a mercury, PCB or dioxin value above its ceiling,
\* exactly one testing receipt is appended before the StopRule is raised, and
\* the StopRule message carries the payload_hash of that receipt.
C9_BreachPersisted ==
    [][(TestingCall /\ LabCertificateAccepted(last'.in) /\ AboveCeiling(last'.in)) =>
           StoppedAfterEmit("CONTAMINANT_EXCEED")]_vars

\* a sample with only PCBs above the ceiling was recorded and refused
C9_Witness ==
    /\ last.op = "create_testing_receipt"
    /\ last.in.pcbs_ppm > LIMITS.pcbs_ppm
    /\ last.in.mercury_ppm <= LIMITS.mercury_ppm
    /\ last.out.raised
    /\ last.out.error.msg = "CONTAMINANT_EXCEED"
    /\ ledger # <<>>
    /\ last.out.error.arg.receipt_emitted = ledger[Len(ledger)]["payload_hash"]

\* C10 as stated, for calls with an accepted lab certificate and contaminants
\* within their ceilings: TOTOX_EXCEED is raised, after the receipt was
\* persisted, exactly when 2 * peroxide + anisidine is greater than 26.0.
C10_TotoxStop ==
    [][(TestingCall /\ LabCertificateAccepted(last'.in) /\ ~AboveCeiling(last'.in)) =>
           IF 2 * last'.in.peroxide_meq_per_kg + last'.in.anisidine > LIMITS.totox
           THEN StoppedAfterEmit("TOTOX_EXCEED")
           ELSE ~last'.out.raised]_vars

-----------------------------------------------------------------------------
(* Validation failures *)

StageOps ==
    {"create_catch_receipt", "create_processing_receipt", "create_testing_receipt",
     "create_encapsulation_receipt", "create_distribution_receipt"}

\* the input of the call has one of the defects the validators refuse
\* without recording anything; file is the ledger the call found
ValidationFailure(op, in, file) ==
    CASE op = "create_catch_receipt" ->
           \/ in.species \notin DOMAIN APPROVED_SPECIES
           \/ in.fishery_cert_type \notin FISHERY_CERT_TYPES
           \/ in.fishery_cert_type # "None" /\ Falsy(in.fishery_cert_hash)
      [] op = "create_processing_receipt" ->
           \/ in.gmp_cert_type \notin GMP_CERT_TYPES
           \/ in.extraction_method \notin EXTRACTION_METHODS
           \/ \A i \in DOMAIN in.gmp_cert_hash : in.gmp_cert_hash[i] # ":"
           \/ in.yield_input_kg <= 0
           \/ in.yield_output_kg <= 0
      [] op = "create_testing_receipt" ->
           \/ in.lab_cert_type \notin LAB_CERT_TYPES
           \/ \A i \in DOMAIN in.lab_cert_hash : in.lab_cert_hash[i] # ":"
      [] op = "create_encapsulation_receipt" ->
           \/ in.facility_cert_type \notin FACILITY_CERT_TYPES
           \/ \A i \in DOMAIN in.facility_cert_hash : in.facility_cert_hash[i] # ":"
           \/ \E i \in DOMAIN file :
                  /\ IsStage(file[i], "encapsulation")
                  /\ HasLot(file[i], in.lot_number)
           \/ in.fill_date \notin ParsableDates
      [] OTHER -> FALSE

RegulatoryStops == {"CONTAMINANT_EXCEED", "TOTOX_EXCEED"}

\* C11: a validator call whose input has a non-regulatory defect (disallowed
\* species, certification type outside its enumeration, certification
\* declared without a hash, invalid GMP, lab or facility certificate type,
\* invalid extraction method, certificate hash without ':', non-positive
\* yield input or output, duplicate lot number, unparseable fill date) raises
\* a StopRule that is not a regulatory stop, emits no receipt and leaves the
\* ledger as it was.
C11_FailureAppendsNothing ==
    [][(last'.op \in StageOps /\ ValidationFailure(last'.op, last'.in, ledger)) =>
           /\ last'.out.raised
           /\ last'.out.error.msg \notin RegulatoryStops
           /\ last'.out.receipt = None
           /\ ledger' = ledger]_vars

\* a processing call with no oil output was refused, with receipts of
\* earlier calls in the ledger
C11_Witness ==
    /\ last.op = "create_processing_receipt"
    /\ last.in.yield_output_kg <= 0
    /\ last.in.yield_input_kg > 0
    /\ last.out.raised
    /\ last.out.error.msg = "Invalid yield values"
    /\ Len(ledger) >= 1

-----------------------------------------------------------------------------
(* The problems of a lot's chain, read off the ledger *)

\* the receipt r points at: the first one whose payload_hash is r's
\* previous_hash, if r has a previous_hash and some receipt carries it
PointsAt(r, receipts) ==
    IF Falsy(Get(r, "previous_hash")) \/ Resolves(r, receipts) = {} THEN None
    ELSE Some(receipts[Min(Resolves(r, receipts))])

\* r and the receipts reached from it in at most n hops
RECURSIVE Reached(_, _, _)
Reached(r, n, receipts) ==
    IF n = 0 \/ PointsAt(r, receipts) = None THEN <<r>>
    ELSE <<r>> \o Reached(PointsAt(r, receipts)[1], n - 1, receipts)

FirstOfLot(type, lot, receipts) ==
    receipts[Min({i \in DOMAIN receipts :
                     IsStage(receipts[i], type) /\ HasLot(receipts[i], lot)})]

LotHas(type, lot, receipts) ==
    \E i \in DOMAIN receipts : IsStage(receipts[i], type) /\ HasLot(receipts[i], lot)

\* the entries expected for a walk back from the encapsulation receipt: a
\* wrong type at each hop, the link at which the walk cannot go on, and each
\* visited receipt whose hash does not recompute
WalkProblems(encap, receipts) ==
    LET path == Reached(encap, 3, receipts)
        end == path[Len(path)]
        types == <<"encapsulation", "testing", "processing", "catch">>
    IN  {Error("Expected receipt but found", <<types[n], GetType(path[n])>>) :
            n \in {m \in 2..Len(path) : GetType(path[m]) # types[m]}}
        \cup (IF Len(path) = 4 THEN {}
              ELSE IF Falsy(Get(end, "previous_hash"))
              THEN {Error("Missing previous_hash on", GetType(end))}
              ELSE {Error("Cannot find receipt with hash", end["previous_hash"])})
        \cup {Error("Hash verification failed for", GetType(path[n])) :
                 n \in {m \in DOMAIN path : ~verify_single_receipt(path[m])}}

\* the entry expected for the lot's distribution receipt if its hash does
\* not recompute
DistributionProblems(dist) ==
    IF verify_single_receipt(dist) THEN {}
    ELSE {Error("Hash verification failed for", GetType(dist))}

LinkProblems(dist, encap) ==
    IF Get(dist, "previous_hash") # Get(encap, "payload_hash")
    THEN {Error("Distribution previous_hash does not match encapsulation payload_hash", None)}
    ELSE {}

\* every problem of the lot's chain: a missing distribution or encapsulation
\* receipt and, for the receipts that are on file, the problems above
PresentProblems(lot, receipts) ==
    LET has_dist == LotHas("distribution", lot, receipts)
        has_encap == LotHas("encapsulation", lot, receipts)
        dist == FirstOfLot("distribution", lot, receipts)
        encap == FirstOfLot("encapsulation", lot, receipts)
    IN  (IF has_dist THEN DistributionProblems(dist)
         ELSE {Error("No distribution receipt found for lot", lot)})
        \cup (IF has_encap THEN WalkProblems(encap, receipts)
              ELSE {Error("No encapsulation receipt found for lot", lot)})
        \cup (IF has_dist /\ has_encap THEN LinkProblems(dist, encap) ELSE {})

Reported(result) == {result.errors[e] : e \in DOMAIN result.errors}

\* on file, every problem of lot's chain is among the errors reported
AllReported(lot, file) ==
    PresentProblems(lot, load_ledger(file)) \subseteq Reported(verify_chain(lot, file, clock))

ReportsVisited(lot, file) ==
    LET receipts == load_ledger(file)
        result == verify_chain(lot, file, clock)
    IN  IF ~LotHas("distribution", lot, receipts)
        THEN result.errors = <<Error("No distribution receipt found for lot", lot)>>
        ELSE IF ~LotHas("encapsulation", lot, receipts)
        THEN result.errors = <<Error("No encapsulation receipt found for lot", lot)>>
        ELSE /\ Reported(result) = PresentProblems(lot, receipts)
             /\ result.chain_valid <=> (PresentProblems(lot, receipts) = {})

-----------------------------------------------------------------------------
(* A walk that cannot go on *)

StopMessages == {"Missing previous_hash on", "Cannot find receipt with hash"}

\* the lot's walk from the encapsulation receipt ends before the catch
\* stage, at a receipt without previous_hash or with one no receipt carries
WalkStops(lot, receipts) ==
    /\ LotHas("distribution", lot, receipts)
    /\ LotHas("encapsulation", lot, receipts)
    /\ Len(Reached(FirstOfLot("encapsulation", lot, receipts), 3, receipts)) < 4

\* what verify_chain returns for such a lot
StoppedWalkResult(lot, file) ==
    LET receipts == load_ledger(file)
        result == verify_chain(lot, file, clock)
        dist == FirstOfLot("distribution", lot, receipts)
        path == Reached(FirstOfLot("encapsulation", lot, receipts), 3, receipts)
        end == path[Len(path)]
        collected == <<dist>> \o path
        failed == SelectSeq(collected, LAMBDA r : ~verify_single_receipt(r))
        stops == SelectSeq(result.errors, LAMBDA e : e.msg \in StopMessages)
        hashes == SelectSeq(result.errors,
                            LAMBDA e : e.msg = "Hash verification failed for")
        at == CHOOSE n \in DOMAIN result.errors : result.errors[n].msg \in StopMessages
    IN  /\ ~result.chain_valid
        /\ result.chain_length = Len(collected)
        /\ stops = <<IF Falsy(Get(end, "previous_hash"))
                      THEN Error("Missing previous_hash on", GetType(end))
                      ELSE Error("Cannot find receipt with hash", end["previous_hash"])>>
        \* nothing but hash recomputation comes after the stop
        /\ \A n \in DOMAIN result.errors :
               n > at => result.errors[n].msg = "Hash verification failed for"
        /\ hashes = [n \in DOMAIN failed |->
                         Error("Hash verification failed for", GetType(failed[n]))]
        /\ \A n \in DOMAIN collected :
               DictHas(result.receipts, GetType(collected[n]))

\* C13: when the walk back from the encapsulation receipt comes to a receipt
\* with no previous_hash, or with a previous_hash that no receipt of the
\* ledger carries, verify_chain visits no earlier stage, records that failure
\* once, reports a hash failure for each receipt collected so far whose hash
\* does not recompute, and returns chain_valid = false with chain_length
\* equal to the number of receipts collected; on the ledger as written and
\* with one field of one line rewritten.
C13_StoppedWalk ==
    \A lot \in Lots :
        /\ WalkStops(lot, load_ledger(ledger)) => StoppedWalkResult(lot, ledger)
        /\ \A i \in DOMAIN ledger : \A k \in DOMAIN ledger[i] :
               \A v \in OtherValues(k, ledger[i][k]) :
                   WalkStops(lot, load_ledger(Rewrite(ledger, i, k, v))) =>
                       StoppedWalkResult(lot, Rewrite(ledger, i, k, v))

\* a walk that stopped at the testing receipt, three receipts collected, one
\* of them rewritten and reported
C13_Witness ==
    \E lot \in Lots : \E i \in DOMAIN ledger :
        LET file == Rewrite(ledger, i, "ts", ledger[i]["ts"] + 1)
            result == verify_chain(lot, file, clock)
        IN  /\ WalkStops(lot, load_ledger(file))
            /\ StoppedWalkResult(lot, file)
            /\ result.chain_length = 3
            /\ \E e \in DOMAIN result.errors :
                   result.errors[e] = Error("Hash verification failed for", "testing")
            /\ \E e \in DOMAIN result.errors :
                   result.errors[e].msg = "Cannot find receipt with hash"

-----------------------------------------------------------------------------
(* The order of the findings *)

\* the position in chain of the receipt an anomaly was raised on
SourcePosition(anomaly, chain) ==
    Min({n \in DOMAIN chain :
            Get(chain[n], "payload_hash") = Some(DictGet(anomaly, "source_receipt_hash"))})

SourceStage(anomaly, chain) == GetType(chain[SourcePosition(anomaly, chain)])

StageRank(type) == CHOOSE n \in DOMAIN STAGE_ORDER : STAGE_ORDER[n] = type

InStageOrder(anomalies, chain) ==
    \A i, j \in DOMAIN anomalies :
        i < j => StageRank(SourceStage(anomalies[i], chain))
                     <= StageRank(SourceStage(anomalies[j], chain))

InChainOrder(anomalies, chain) ==
    \A i, j \in DOMAIN anomalies :
        i < j => SourcePosition(anomalies[i], chain) <= SourcePosition(anomalies[j], chain)

StageTypes == {STAGE_ORDER[n] : n \in DOMAIN STAGE_ORDER}

\* the stage receipts of chain come in stage order
ChainInStageOrder(chain) ==
    \A i, j \in DOMAIN chain :
        (i < j /\ GetType(chain[i]) \in StageTypes /\ GetType(chain[j]) \in StageTypes) =>
            StageRank(GetType(chain[i])) <= StageRank(GetType(chain[j]))

RanAllChecks == last.op = "run_all_fraud_checks"

\* C14 as stated: whatever chain run_all_fraud_checks is given, the receipts
\* collected by verify_chain included, the anomalies it returns come in
\* stage order: those on processing receipts, then those on testing
\* receipts, then those on distribution receipts.
C14_StageOrder ==
    RanAllChecks => InStageOrder(last.out.anomalies, last.in.chain)

\* of two findings on one receipt, label fraud comes first
LabelFraudFirst(anomalies, chain) ==
    \A i, j \in DOMAIN anomalies :
        (i < j /\ SourcePosition(anomalies[i], chain) = SourcePosition(anomalies[j], chain)) =>
            /\ DictGet(anomalies[i], "anomaly_type") = "LABEL_FRAUD"
            /\ DictGet(anomalies[j], "anomaly_type") = "CONTAMINANT_EXCEED"

\* C14: run_all_fraud_checks returns its anomalies in the order in which
\* their receipts come in the input chain, label fraud before contaminant
\* exceedance for one testing receipt; they are in stage order when the
\* input chain is.
C14_ChainOrder ==
    RanAllChecks =>
        /\ InChainOrder(last.out.anomalies, last.in.chain)
        /\ LabelFraudFirst(last.out.anomalies, last.in.chain)
        /\ ChainInStageOrder(last.in.chain) =>
               InStageOrder(last.out.anomalies, last.in.chain)

\* checks on the recorded receipts of a full chain found a yield anomaly and
\* then a cold chain anomaly
C14_Witness ==
    /\ RanAllChecks
    /\ ChainInStageOrder(last.in.chain)
    /\ Len(last.in.chain) >= 5
    /\ \E i, j \in DOMAIN last.out.anomalies :
           /\ i < j
           /\ SourceStage(last.out.anomalies[i], last.in.chain) = "processing"
           /\ SourceStage(last.out.anomalies[j], last.in.chain) = "distribution"

-----------------------------------------------------------------------------
(* What the fraud checks append *)

\* the number of findings a receipt calls for, read off its fields
Findings(r) ==
    CASE GetType(r) = "processing" ->
           IF Has(r, "yield_status") /\ r["yield_status"] \in {"LOW", "HIGH_DILUTION_FLAG"}
           THEN 1 ELSE 0
      [] GetType(r) = "testing" ->
           (IF r["potency"].potency_pass THEN 0 ELSE 1)
           + (IF r["contaminants"].all_pass THEN 0 ELSE 1)
      [] GetType(r) = "distribution" ->
           IF /\ r["cold_chain"].enabled
              /\ \/ r["cold_chain"].max_temp_c[1] > COLD_CHAIN_TARGET_MAX
                 \/ r["cold_chain"].deviations_count > COLD_CHAIN_MAX_DEVIATIONS
           THEN 1 ELSE 0
      [] OTHER -> 0

\* each receipt of chain is the source of as many anomalies as it has
\* findings
OnePerFinding(anomalies, chain) ==
    \A n \in DOMAIN chain :
        Cardinality({i \in DOMAIN anomalies : SourcePosition(anomalies[i], chain) = n})
            = Findings(chain[n])

\* after holds before and then the lines of the anomalies, one each, in order
AppendedInOrder(before, after, anomalies) ==
    /\ Len(after) = Len(before) + Len(anomalies)
    /\ IsPrefix(before, after)
    /\ \A i \in DOMAIN anomalies :
           /\ load_ledger(after)[Len(before) + i]["payload_hash"]
                  = DictGet(anomalies[i], "payload_hash")
           /\ GetType(load_ledger(after)[Len(before) + i]) = "anomaly"
           /\ after[Len(before) + i] = JsonDumps(anomalies[i])

\* C15: a call of run_all_fraud_checks appends to the ledger the anomaly
\* receipts it returns, one line each and in the order returned, and nothing
\* else; it returns one anomaly per finding, so that a receipt without a
\* finding, and a catch, encapsulation or anomaly receipt, adds no line.
C15_AppendsWhatItReturns ==
    [][last'.op = "run_all_fraud_checks" =>
           /\ AppendedInOrder(ledger, ledger', last'.out.anomalies)
           /\ OnePerFinding(last'.out.anomalies, last'.in.chain)]_vars

\* checks over a recorded chain that already held an anomaly line appended
\* two or more anomalies
C15_Witness ==
    /\ RanAllChecks
    /\ \E n \in DOMAIN last.in.chain : GetType(last.in.chain[n]) = "anomaly"
    /\ \E n \in DOMAIN last.in.chain : GetType(last.in.chain[n]) = "encapsulation"
    /\ \E n \in DOMAIN last.in.chain :
           GetType(last.in.chain[n]) = "testing" /\ Findings(last.in.chain[n]) = 0
    /\ Len(last.out.anomalies) >= 2
    /\ Len(ledger) = Len(last.in.chain) + Len(last.out.anomalies)

-----------------------------------------------------------------------------
(* Running the checks again *)

\* C16 as stated: running run_all_fraud_checks a second time on the same
\* receipts leaves the ledger exactly as it was after the first run.
C16_SecondRunChangesNothing ==
    [][(/\ last.op = "run_all_fraud_checks"
        /\ last'.op = "run_all_fraud_checks"
        /\ last'.in.chain = last.in.chain) => ledger' = ledger]_vars

-----------------------------------------------------------------------------
(* The yield classes *)

\* the class of output / input, compared as a fraction
YieldClass(input_kg, output_kg) ==
    IF 100 * output_kg < 12 * input_kg THEN "LOW"
    ELSE IF 100 * output_kg > 18 * input_kg THEN "HIGH_DILUTION_FLAG"
    ELSE "NORMAL"

YieldFinding(class) ==
    IF class = "LOW" THEN << <<"YIELD_LOW", "WARNING">> >>
    ELSE IF class = "HIGH_DILUTION_FLAG" THEN << <<"YIELD_HIGH", "FLAG">> >>
    ELSE <<>>

\* the type and severity of each anomaly
Kinds(anomalies) ==
    [i \in DOMAIN anomalies |->
        <<DictGet(anomalies[i], "anomaly_type"), DictGet(anomalies[i], "severity")>>]

ProcessedBatch ==
    /\ last.op = "create_processing_receipt"
    /\ ~last.out.raised

YieldChecked ==
    /\ last.op = "detect_yield_anomaly"
    /\ GetType(last.in.receipt) = "processing"

-----------------------------------------------------------------------------
(* The cold chain finding *)

ColdChainChecked ==
    /\ last.op = "detect_cold_chain_degradation"
    /\ GetType(last.in.receipt) = "distribution"

\* the receipt's cold chain has a maximum, and it is above 8.0 C
TooWarm(cold_chain) ==
    /\ cold_chain.max_temp_c # None
    /\ cold_chain.max_temp_c[1] > 8000

\* C18: detect_cold_chain_degradation emits at most one anomaly for a
\* distribution receipt: none when tracking is disabled;
\* COLD_CHAIN_DEGRADATION with FLAG when enabled and max_temp_c > 8.0,
\* whatever the deviation count; COLD_CHAIN_DEGRADATION with WARNING when
\* enabled, max_temp_c <= 8.0 and deviations_count > 3; none when enabled
\* with max_temp_c <= 8.0 and deviations_count <= 3.
C18_ColdChainFinding ==
    ColdChainChecked =>
        LET cold_chain == last.in.receipt.cold_chain
            found == Kinds(last.out.anomalies)
        IN  /\ Len(found) <= 1
            /\ ~cold_chain.enabled => found = <<>>
            /\ (cold_chain.enabled /\ TooWarm(cold_chain)) =>
                   found = << <<"COLD_CHAIN_DEGRADATION", "FLAG">> >>
            /\ (cold_chain.enabled /\ ~TooWarm(cold_chain)
                    /\ cold_chain.deviations_count > 3) =>
                   found = << <<"COLD_CHAIN_DEGRADATION", "WARNING">> >>
            /\ (cold_chain.enabled /\ ~TooWarm(cold_chain)
                    /\ cold_chain.deviations_count <= 3) =>
                   found = <<>>

\* a recorded shipment with four readings above 8.0 C was flagged
C18_Witness ==
    /\ ColdChainChecked
    /\ ledger # <<>>
    /\ last.in.receipt.cold_chain.enabled
    /\ TooWarm(last.in.receipt.cold_chain)
    /\ last.in.receipt.cold_chain.deviations_count > 3
    /\ Kinds(last.out.anomalies) = << <<"COLD_CHAIN_DEGRADATION", "FLAG">> >>

-----------------------------------------------------------------------------
(* The findings on a testing receipt *)

LabelFraud == <<"LABEL_FRAUD", "FLAG">>

ContaminantExceed == <<"CONTAMINANT_EXCEED", "REJECT">>

\* the contaminants of a testing receipt whose pass flag is false
FailedFlags(contaminants) ==
    {name \in {"mercury_ppm", "pcbs_ppm", "dioxins_pg_per_g"} :
        \/ name = "mercury_ppm" /\ ~contaminants.mercury_pass
        \/ name = "pcbs_ppm" /\ ~contaminants.pcbs_pass
        \/ name = "dioxins_pg_per_g" /\ ~contaminants.dioxins_pass}

\* the keys of failed_contaminants in an anomaly, each key once
FailedNamed(anomaly, names) ==
    LET failed == DictGet(anomaly, "details").failed_contaminants
    IN  /\ {failed[i][1] : i \in DOMAIN failed} = names
        /\ Len(failed) = Cardinality(names)

TestingChecked(op) ==
    /\ last.op = op
    /\ GetType(last.in.receipt) = "testing"

ChecksOnTesting ==
    /\ RanAllChecks
    /\ Len(last.in.chain) = 1
    /\ GetType(last.in.chain[1]) = "testing"

\* C19: on a testing receipt detect_label_fraud emits LABEL_FRAUD with FLAG
\* exactly when potency_pass is false; detect_contaminant_exceed emits
\* CONTAMINANT_EXCEED with REJECT exactly when contaminants.all_pass is
\* false, and its failed_contaminants names exactly the contaminants whose
\* pass flag is false; run_all_fraud_checks on a receipt failing both
\* returns both anomalies, label fraud first.
C19_TestingFindings ==
    /\ TestingChecked("detect_label_fraud") =>
           Kinds(last.out.anomalies) =
               IF ~last.in.receipt.potency.potency_pass THEN <<LabelFraud>> ELSE <<>>
    /\ TestingChecked("detect_contaminant_exceed") =>
           LET contaminants == last.in.receipt.contaminants
           IN  /\ Kinds(last.out.anomalies) =
                      IF ~contaminants.all_pass THEN <<ContaminantExceed>> ELSE <<>>
               /\ \A i \in DOMAIN last.out.anomalies :
                      FailedNamed(last.out.anomalies[i], FailedFlags(contaminants))
    /\ ChecksOnTesting =>
           LET receipt == last.in.chain[1]
           IN  (~receipt.potency.potency_pass /\ ~receipt.contaminants.all_pass) =>
                   /\ Kinds(last.out.anomalies) = <<LabelFraud, ContaminantExceed>>
                   /\ FailedNamed(last.out.anomalies[2], FailedFlags(receipt.contaminants))

\* all checks were run on a recorded sample short on potency and over the
\* PCB ceiling only
C19_Witness ==
    /\ ChecksOnTesting
    /\ ledger # <<>>
    /\ ~last.in.chain[1].potency.potency_pass
    /\ FailedFlags(last.in.chain[1].contaminants) = {"pcbs_ppm"}
    /\ Kinds(last.out.anomalies) = <<LabelFraud, ContaminantExceed>>

-----------------------------------------------------------------------------
(* validate_cold_chain on a log of readings *)

ColdChainValidated == last.op = "validate_cold_chain"

\* the readings strictly below 2.0 C or strictly above 8.0 C
OutOfBand(temps) == {i \in DOMAIN temps : temps[i] < 2000 \/ temps[i] > 8000}

\* C20: validate_cold_chain on a non-empty list of readings returns enabled
\* true, deviations_count equal to the number of readings strictly below
\* 2.0 or strictly above 8.0, and cold_chain_pass true exactly when the
\* maximum reading is at most 8.0 and deviations_count is at most 3; on an
\* empty list it returns enabled false with deviations_count 0, and raises
\* nothing.
C20_ColdChainStats ==
    ColdChainValidated =>
        LET temps == last.in.temps
            out == last.out
        IN  IF temps = <<>>
            THEN /\ ~out.enabled
                 /\ out.deviations_count = 0
            ELSE /\ out.enabled
                 /\ out.deviations_count = Cardinality(OutOfBand(temps))
                 /\ out.cold_chain_pass <=>
                        /\ \A i \in DOMAIN temps : temps[i] <= 8000
                        /\ out.deviations_count <= 3

\* four readings below 2.0 C and none above 8.0 C: four deviations, no pass
C20_Witness ==
    /\ ColdChainValidated
    /\ Len(last.in.temps) = 4
    /\ \A i \in DOMAIN last.in.temps : last.in.temps[i] < 2000
    /\ last.out.deviations_count = 4
    /\ ~last.out.cold_chain_pass

-----------------------------------------------------------------------------
(* The contaminant flags *)

\* create_testing_receipt got as far as emitting a receipt
TestedSample ==
    /\ last.op = "create_testing_receipt"
    /\ last.out.receipt # None

\* C21: validate_contaminants reports mercury_pass, pcbs_pass and
\* dioxins_pass true exactly when the value is at most 0.1 ppm, 0.09 ppm
\* and 3.0 pg/g respectively, a value at its ceiling passing, and all_pass
\* is the conjunction of the three flags.
C21_ContaminantFlags ==
    TestedSample =>
        LET contaminants == DictGet(last.out.receipt[1], "contaminants")
        IN  /\ contaminants.mercury_pass <=> last.in.mercury_ppm <= 100
            /\ contaminants.pcbs_pass <=> last.in.pcbs_ppm <= 90
            /\ contaminants.dioxins_pass <=> last.in.dioxins_pg_per_g <= 3000
            /\ contaminants.all_pass <=>
                   /\ contaminants.mercury_pass
                   /\ contaminants.pcbs_pass
                   /\ contaminants.dioxins_pass

\* a sample with every contaminant at its ceiling passed
C21_Witness ==
    /\ TestedSample
    /\ last.in.mercury_ppm = 100
    /\ last.in.pcbs_ppm = 90
    /\ last.in.dioxins_pg_per_g = 3000
    /\ DictGet(last.out.receipt[1], "contaminants").all_pass

-----------------------------------------------------------------------------
(* Catches accepted and refused *)

\* the step is a call of create_catch_receipt
CatchCall == clock' = clock /\ last'.op = "create_catch_receipt"

SpeciesApproved(in) == in.species \in DOMAIN APPROVED_SPECIES

CertificationConsistent(in) ==
    /\ in.fishery_cert_type \in {"MSC", "FriendOfSea", "None"}
    /\ in.fishery_cert_type # "None" =>
           (in.fishery_cert_hash # None /\ in.fishery_cert_hash[1] # <<>>)

\* the call appended one catch receipt that carries the common name of the
\* species, and returned
CatchAppended ==
    /\ ~last'.out.raised
    /\ Len(ledger') = Len(ledger) + 1
    /\ IsPrefix(ledger, ledger')
    /\ LET receipt == load_ledger(ledger')[Len(ledger')]
       IN  /\ GetType(receipt) = "catch"
           /\ receipt.species = last'.in.species
           /\ receipt.species_common = APPROVED_SPECIES[last'.in.species]

\* the call raised and left the ledger alone; an unapproved species is what
\* the StopRule names, whatever the certification
CatchRefused ==
    /\ last'.out.raised
    /\ ledger' = ledger
    /\ ~SpeciesApproved(last'.in) =>
           last'.out.error = Error("Species not FDA-approved for fish oil",
                                   last'.in.species)
    /\ SpeciesApproved(last'.in) =>
           last'.out.error.msg # "Species not FDA-approved for fish oil"

\* C22: create_catch_receipt appends a catch receipt exactly when the
\* species is on the approved allowlist, the certification type is MSC,
\* FriendOfSea or None, and a type other than None comes with a non-empty
\* certificate hash; otherwise it raises StopRule, the species check coming
\* before the certification checks; a persisted catch receipt carries the
\* allowlist's common name for its species.
C22_CatchAccepted ==
    [][CatchCall =>
          IF SpeciesApproved(last'.in) /\ CertificationConsistent(last'.in)
          THEN CatchAppended
          ELSE CatchRefused]_vars

\* a cod catch without certification was recorded as Atlantic Cod
C22_Witness ==
    /\ last.op = "create_catch_receipt"
    /\ last.in.species = "Gadus morhua"
    /\ last.in.fishery_cert_type = "None"
    /\ last.in.fishery_cert_hash = None
    /\ ledger # <<>>
    /\ load_ledger(ledger)[Len(ledger)].species_common = "Atlantic Cod"
    /\ DictGet(last.out.receipt[1], "payload_hash") = ledger[Len(ledger)]["payload_hash"]

-----------------------------------------------------------------------------
(* One payload emitted at two times *)

\* the step is a call of emit_receipt, at time clock
EmitCall == clock' = clock /\ last'.op = "emit_receipt"

\* the receipt the arguments of a call give at time ts
Reemitted(call, ts) ==
    emit_receipt(call.in.receipt_type, call.in.payload, call.in.tenant_id, ts)

OtherTimes == (0..MaxClock) \ {clock}

\* the fields in which two receipt dicts differ
DifferingFields(a, b) ==
    {k \in DictKeys(a) \cup DictKeys(b) :
        ~(DictHas(a, k) /\ DictHas(b, k) /\ DictGet(a, k) = DictGet(b, k))}

\* C23 as stated: emitting (T, P) at two different timestamps yields two
\* receipts whose payload_hash values differ while every other field of
\* the two receipts is equal.
C23_OnlyHashDiffers ==
    [][EmitCall =>
          \A ts \in OtherTimes :
              DifferingFields(last'.out.receipt[1], Reemitted(last', ts)) =
                  {"payload_hash"}]_vars

\* C23: emitting (T, P) at two different timestamps yields two receipts
\* whose ts, payload_hash and merkle_root differ while every other field is
\* equal, when P has no key ts; a key ts of P replaces the timestamp, and
\* the two receipts are then equal in every field.
C23_TimeFieldsDiffer ==
    [][EmitCall =>
          \A ts \in OtherTimes :
              DifferingFields(last'.out.receipt[1], Reemitted(last', ts)) =
                  IF DictHas(last'.in.payload, "ts") THEN {}
                  ELSE {"ts", "payload_hash", "merkle_root"}]_vars

\* the ledger holds the test payload emitted at time 0 and again at time 1
C23_Witness ==
    /\ last.op = "emit_receipt"
    /\ Len(ledger) = 2
    /\ last.in.payload = CmdTestPayload
    /\ ledger[1] = ReceiptLine(Reemitted(last, 0))
    /\ ledger[2] = ReceiptLine(Reemitted(last, 1))
    /\ ledger[2] = ReceiptLine(last.out.receipt[1])
    /\ {k \in DOMAIN ledger[1] : ledger[1][k] # ledger[2][k]} =
           {"ts", "payload_hash", "merkle_root"}

-----------------------------------------------------------------------------
(* The Merkle root of a list *)

MerkleComputed == last.op = "merkle_root"

\* the node over a pair: the hash of the two nodes put together
Node(left, right) == Blake3(<<left, right>>)

\* the level above: node i is over nodes 2i-1 and 2i, and over node 2i-1
\* twice when there is no node 2i
LevelAbove(nodes) ==
    [i \in 1..((Len(nodes) + 1) \div 2) |->
        Node(nodes[2 * i - 1],
             IF 2 * i <= Len(nodes) THEN nodes[2 * i] ELSE nodes[2 * i - 1])]

RECURSIVE RootOf(_)
RootOf(nodes) == IF Len(nodes) = 1 THEN nodes[1] ELSE RootOf(LevelAbove(nodes))

\* the roots of lists of one, two, three and five items, written out
RootWrittenOut(leaf) ==
    IF Len(leaf) = 1 THEN leaf[1]
    ELSE IF Len(leaf) = 2 THEN Node(leaf[1], leaf[2])
    ELSE IF Len(leaf) = 3
    THEN Node(Node(leaf[1], leaf[2]), Node(leaf[3], leaf[3]))
    ELSE Node(Node(Node(leaf[1], leaf[2]), Node(leaf[3], leaf[4])),
              Node(Node(leaf[5], leaf[5]), Node(leaf[5], leaf[5])))

\* C24: merkle_root of the empty list is one fixed sentinel value; of a
\* single item it is the item's leaf hash; for longer lists each level
\* pairs adjacent nodes left to right and hashes the two together, a
\* trailing unpaired node being hashed with a copy of itself, until one
\* node remains, which is the root.
C24_MerkleRoot ==
    MerkleComputed =>
        LET items == last.in.items
            leaf == [i \in DOMAIN items |-> Blake3(items[i])]
        IN  IF items = <<>> THEN last.out.root = Blake3("empty")
            ELSE /\ last.out.root = RootOf(leaf)
                 /\ Len(items) \in {1, 2, 3, 5} => last.out.root = RootWrittenOut(leaf)

\* the root of five items, the fifth paired with itself on two levels
C24_Witness ==
    /\ MerkleComputed
    /\ Len(last.in.items) = 5
    /\ last.in.items[4] # last.in.items[5]
    /\ last.out.root = RootWrittenOut([i \in 1..5 |-> Blake3(last.in.items[i])])

-----------------------------------------------------------------------------
(* The tools of the server *)

ToolNames ==
    {"tool_query_receipts", "tool_verify_chain", "tool_get_summary",
     "tool_generate_qr", "tool_run_fraud_checks"}

\* C25: every operation the tool server exposes (query_receipts,
\* verify_chain, get_summary, generate_qr, run_fraud_checks) is read-only:
\* calling it leaves the ledger unchanged.
C25_ToolsReadOnly ==
    [][last'.op \in ToolNames => ledger' = ledger]_vars

-----------------------------------------------------------------------------
(* The summary and the QR payload of a lot *)

\* what the summary and the QR payload of a lot show, against verify_chain
\* on the same ledger
SummaryAgrees(lot, file, summary, qr) ==
    LET chain == verify_chain(lot, file, clock)
    IN  /\ summary.valid <=> chain.chain_valid
        /\ ~chain.chain_valid =>
               /\ summary = [lot |-> lot, valid |-> FALSE, errors |-> chain.errors]
               /\ qr = [lot |-> lot, valid |-> FALSE, errors |-> chain.errors]
        /\ chain.chain_valid =>
               /\ qr.lot = lot
               /\ qr.chain_length = 5
               /\ qr.verification_url = <<"https://verify.fishoilproof.io/", lot>>

Summarised(lot, file) ==
    SummaryAgrees(lot, file, get_chain_summary(lot, file, clock),
                  generate_qr_payload(lot, file, clock))

\* C26: get_chain_summary(lot) returns valid = true exactly when
\* verify_chain(lot) returns chain_valid = true, and otherwise valid = false
\* with verify_chain's errors; generate_qr_payload(lot) returns an object
\* with valid = false and those errors when the summary is invalid, and
\* otherwise one carrying the lot, chain_length = 5 and a verification_url.
\* On the ledger as written and with any one field of any one line
\* rewritten, and for the results the tools returned.
C26_SummaryFollowsChain ==
    /\ \A lot \in ToolLots :
           /\ Summarised(lot, ledger)
           /\ \A i \in DOMAIN ledger : \A k \in DOMAIN ledger[i] :
                  \A v \in OtherValues(k, ledger[i][k]) :
                      Summarised(lot, Rewrite(ledger, i, k, v))
    /\ last.op = "tool_get_summary" =>
           SummaryAgrees(last.in.lot_number, ledger, last.out,
                         generate_qr_payload(last.in.lot_number, ledger, clock))
    /\ last.op = "tool_generate_qr" =>
           SummaryAgrees(last.in.lot_number, ledger,
                         get_chain_summary(last.in.lot_number, ledger, clock), last.out)

\* the QR payload of the recorded lot was asked for when its chain was
\* complete, and carries five receipts
C26_Witness ==
    /\ last.op = "tool_generate_qr"
    /\ verify_chain(last.in.lot_number, ledger, clock).chain_valid
    /\ last.out.chain_length = 5
    /\ \E i \in DOMAIN ledger :
           ~verify_chain(last.in.lot_number,
                         Rewrite(ledger, i, "payload_hash", BogusHash), clock).chain_valid

-----------------------------------------------------------------------------
(* Validity as the ledger grows *)

ValidOn(lot, file) == verify_chain(lot, file, clock).chain_valid

\* C27: validity is stable under appends: once verify_chain(lot) reports
\* chain_valid = true on a ledger, it reports chain_valid = true on every
\* ledger reached by appending further receipts (stage receipts of other
\* lots, further distribution receipts of the same lot, anomaly receipts).
C27_ValidStaysValid ==
    [][\A lot \in Lots : ValidOn(lot, ledger) => ValidOn(lot, ledger')]_vars

\* the lot is valid on a ledger that holds, behind its five receipts, a
\* second distribution receipt of the lot and an anomaly receipt
C27_Witness ==
    /\ ValidOn(FraudLot, ledger)
    /\ AnomalyLines(ledger) # {}
    /\ \E i, j \in DOMAIN ledger :
           /\ i < j
           /\ IsStage(ledger[i], "distribution") /\ HasLot(ledger[i], FraudLot)
           /\ IsStage(ledger[j], "distribution") /\ HasLot(ledger[j], FraudLot)
           /\ ledger[j]["previous_hash"] # ledger[i]["previous_hash"]

\* the lines of a stage that carry the lot, and the earliest of them
LotLines(file, type, lot) ==
    {i \in DOMAIN file : IsStage(file[i], type) /\ HasLot(file[i], lot)}

Earliest(lines) == CHOOSE i \in lines : \A j \in lines : i <= j

\* the earliest distribution line of the lot does not carry the hash of the
\* earliest encapsulation line of the lot
MisLinked(lot, file) ==
    /\ LotLines(file, "distribution", lot) # {}
    /\ LotLines(file, "encapsulation", lot) # {}
    /\ file[Earliest(LotLines(file, "distribution", lot))]["previous_hash"]
         # file[Earliest(LotLines(file, "encapsulation", lot))]["payload_hash"]

\* a call of create_distribution_receipt returns a receipt with the lot
\* number and the previous hash it was given, appended as one line
DistributionAccepted ==
    last'.op = "create_distribution_receipt" =>
        /\ ~last'.out.raised
        /\ ledger' = Append(ledger, ReceiptLine(last'.out.receipt[1]))
        /\ ledger'[Len(ledger')]["receipt_type"] = "distribution"
        /\ ledger'[Len(ledger')]["lot_number"] = last'.in.lot_number
        /\ ledger'[Len(ledger')]["previous_hash"] = last'.in.previous_hash

\* C28: verify_chain judges a lot by its first distribution receipt and its
\* first encapsulation receipt in ledger order, and create_distribution_receipt
\* accepts any lot number and previous hash without consulting the ledger;
\* so once the earliest distribution receipt of a lot carries a previous_hash
\* other than the payload_hash of the lot's encapsulation receipt,
\* verify_chain(lot) reports chain_valid = false after every later append,
\* a later correctly linked distribution receipt included.
C28_MisLinkedStaysInvalid ==
    [][/\ DistributionAccepted
       /\ \A lot \in Lots :
              MisLinked(lot, ledger) =>
                  /\ ~ValidOn(lot, ledger)
                  /\ MisLinked(lot, ledger')
                  /\ ~ValidOn(lot, ledger')]_vars

\* a distribution receipt of the lot recorded on the testing receipt's hash,
\* then the lot's encapsulation receipt, then a distribution receipt that
\* carries the encapsulation receipt's hash: the lot is not valid
C28_Witness ==
    /\ MisLinked(FraudLot, ledger)
    /\ ~ValidOn(FraudLot, ledger)
    /\ last.op = "create_distribution_receipt"
    /\ \E j \in LotLines(ledger, "distribution", FraudLot) :
           /\ j = Len(ledger)
           /\ j > Earliest(LotLines(ledger, "encapsulation", FraudLot))
           /\ ledger[j]["previous_hash"]
                = ledger[Earliest(LotLines(ledger, "encapsulation", FraudLot))]["payload_hash"]

-----------------------------------------------------------------------------
(* Rewriting a stored line together with its hash *)

\* the fields of a line that came from the payload, the link included
PayloadFields(line) == PayloadKeys(line) \cup ({"previous_hash"} \cap DOMAIN line)

\* line i with field k set to v and payload_hash set to the hash
\* compute_payload_hash gives for the changed line
RewriteRehashed(file, i, k, v) ==
    LET changed == [file[i] EXCEPT ![k] = v]
    IN  [file EXCEPT ![i] =
            [changed EXCEPT !["payload_hash"] = dual_hash(CanonicalBytes(JsonLoads(changed)))]]

Accepted(lot, file) ==
    LET result == verify_chain(lot, file, clock)
    IN  result.chain_valid /\ result.errors = <<>>

\* C29 as stated: on a valid chain, a rewrite of one payload field of one of
\* the lot's receipts, with payload_hash recomputed, is reported invalid for
\* the catch, processing, testing and encapsulation receipts and accepted
\* with zero errors for the distribution receipt.
C29_AnyPayloadField ==
    \A lot \in Lots :
        ValidOn(lot, ledger) =>
            \A i \in ChainLines(lot, ledger) : \A k \in PayloadFields(ledger[i]) :
                \A v \in OtherValues(k, ledger[i][k]) :
                    IF IsStage(ledger[i], "distribution")
                    THEN Accepted(lot, RewriteRehashed(ledger, i, k, v))
                    ELSE ~ValidOn(lot, RewriteRehashed(ledger, i, k, v))

\* C29: on a valid chain, a rewrite of one payload field with payload_hash
\* recomputed is reported as chain_valid = false when the receipt is the
\* lot's catch, processing, testing or encapsulation receipt, and is accepted
\* with chain_valid = true and zero errors when the receipt is the lot's
\* distribution receipt and the field is neither lot_number nor
\* previous_hash.
C29_RehashedRewrite ==
    \A lot \in Lots :
        ValidOn(lot, ledger) =>
            \A i \in ChainLines(lot, ledger) : \A k \in PayloadFields(ledger[i]) :
                \A v \in OtherValues(k, ledger[i][k]) :
                    IF IsStage(ledger[i], "distribution")
                    THEN k \notin {"lot_number", "previous_hash"} =>
                             Accepted(lot, RewriteRehashed(ledger, i, k, v))
                    ELSE ~ValidOn(lot, RewriteRehashed(ledger, i, k, v))

\* a valid chain on which the rehashed testing line is reported and the
\* rehashed distribution line, its cold chain record changed, is accepted
C29_Witness ==
    /\ ValidOn(FraudLot, ledger)
    /\ \E i \in ChainLines(FraudLot, ledger) :
           /\ IsStage(ledger[i], "testing")
           /\ \E v \in OtherValues("contaminants", ledger[i]["contaminants"]) :
                  ~ValidOn(FraudLot, RewriteRehashed(ledger, i, "contaminants", v))
    /\ \E i \in ChainLines(FraudLot, ledger) :
           /\ IsStage(ledger[i], "distribution")
           /\ \E v \in OtherValues("cold_chain", ledger[i]["cold_chain"]) :
                  /\ RewriteRehashed(ledger, i, "cold_chain", v) # ledger
                  /\ Accepted(FraudLot, RewriteRehashed(ledger, i, "cold_chain", v))

-----------------------------------------------------------------------------
(* Chains through a stopped sample *)

\* a testing line of a sample create_testing_receipt stopped after emitting
StoppedTesting(line) ==
    /\ IsStage(line, "testing")
    /\ \/ ~line["contaminants"].all_pass
       \/ line["oxidation"].totox > LIMITS.totox

\* line t is a stopped testing line, the encapsulation line e of the lot
\* carries its hash, the distribution line d of the lot carries the hash of e
ThroughStopped(file, lot, t, e, d) ==
    /\ StoppedTesting(file[t])
    /\ IsStage(file[e], "encapsulation") /\ HasLot(file[e], lot)
    /\ Links(file[e], file[t])
    /\ IsStage(file[d], "distribution") /\ HasLot(file[d], lot)
    /\ Links(file[d], file[e])

\* C30: chain_valid does not depend on any domain pass/fail field: a testing
\* receipt persisted by a CONTAMINANT_EXCEED or TOTOX_EXCEED stop can be
\* referenced as previous_hash by a later encapsulation receipt, followed by
\* a distribution receipt, and verify_chain for that lot then reports
\* chain_valid = true with zero errors.
C30_StoppedSampleValid ==
    /\ (/\ last.op = "create_encapsulation_receipt"
         /\ \E t \in DOMAIN ledger :
                /\ StoppedTesting(ledger[t])
                /\ ledger[t]["payload_hash"] = last.in.previous_hash)
            => /\ ~last.out.raised
               /\ Links(ledger[Len(ledger)], [payload_hash |-> last.in.previous_hash])
    /\ \A lot \in Lots : \A t, e, d \in DOMAIN ledger :
           ThroughStopped(ledger, lot, t, e, d) =>
               /\ Accepted(lot, ledger)
               /\ (last.op = "verify_chain" /\ last.in.lot_number = lot) =>
                      last.out.chain_valid /\ last.out.errors = <<>>

\* verify_chain was asked about a lot whose sample was stopped for TOTOX
\* alone, then encapsulated and distributed, and answered valid
C30_Witness ==
    /\ last.op = "verify_chain"
    /\ last.in.lot_number = FraudLot
    /\ last.out.chain_valid
    /\ \E t, e, d \in DOMAIN ledger :
           /\ ThroughStopped(ledger, FraudLot, t, e, d)
           /\ t < e /\ e < d
           /\ ledger[t]["contaminants"].all_pass
           /\ ~ledger[t]["overall_pass"]

-----------------------------------------------------------------------------
(* The uniqueness scan and the append, interleaved *)

\* caller c finishes a call in this step
Finishes(c) == sess[c].pc = "scanned" /\ sess'[c].pc = "idle"

\* two encapsulation lines of the ledger carry the same lot number
TwoOfOneLot(file) ==
    \E i, j \in DOMAIN file :
        /\ i < j
        /\ IsStage(file[i], "encapsulation") /\ IsStage(file[j], "encapsulation")
        /\ file[i]["lot_number"] = file[j]["lot_number"]

\* C31: the lot-uniqueness scan and the append in
\* create_encapsulation_receipt are not one atomic step: a call whose scan
\* ran before another call's append of the same lot number succeeds like
\* that other call, and the ledger ends with two encapsulation receipts
\* carrying the lot number.
C31_ScanThenAppend ==
    [][\A c \in Callers :
          (/\ Finishes(c)
           /\ ~LotExists(sess[c].in.lot_number, load_ledger(sess[c].existing))
           /\ sess[c].in.fill_date \in ParsableDates)
          => /\ ~last'.out.raised
             /\ ledger' = Append(ledger, ReceiptLine(last'.out.receipt[1]))
             /\ ledger'[Len(ledger')]["lot_number"] = sess[c].in.lot_number
             /\ LotExists(sess[c].in.lot_number, load_ledger(ledger))
                    => TwoOfOneLot(ledger')]_vars

\* both callers scanned the empty ledger for the same lot, both calls
\* returned, and the ledger holds their two receipts
C31_Witness ==
    /\ Len(ledger) = 2
    /\ TwoOfOneLot(ledger)
    /\ \A c \in Callers : sess[c] = Idle
    /\ last.op = "create_encapsulation_receipt"
    /\ ~last.out.raised

-----------------------------------------------------------------------------
(* The shape of a verification result *)

\* the result's chain_length, chain_valid, receipts and errors fit together
ResultShape(result) ==
    /\ result.chain_length \in {0, 2, 3, 4, 5}
    /\ result.chain_length < 5 => ~result.chain_valid
    /\ result.chain_valid =>
           /\ Len(result.receipts) = 5
           /\ DictKeys(result.receipts) =
                  {"catch", "processing", "testing", "encapsulation", "distribution"}
           /\ \A type \in DictKeys(result.receipts) :
                  GetType(DictGet(result.receipts, type)) = type
           /\ result.errors = <<>>

\* C32: on every return of verify_chain, chain_length is one of 0, 2, 3, 4
\* or 5 and chain_length < 5 implies chain_valid = false; whenever
\* chain_valid = true the receipts map has exactly the five keys catch,
\* processing, testing, encapsulation and distribution, each holding a
\* receipt of that type, and errors is empty.  Checked on the ledger as
\* written and with any one field of any one line rewritten.
C32_ResultShape ==
    \A lot \in Lots :
        /\ ResultShape(verify_chain(lot, ledger, clock))
        /\ \A i \in DOMAIN ledger : \A k \in DOMAIN ledger[i] :
               \A v \in OtherValues(k, ledger[i][k]) :
                   ResultShape(verify_chain(lot, Rewrite(ledger, i, k, v), clock))

\* a lot with a valid result of five receipts, whose result after a rewrite
\* of the processing line's link has three receipts
C32_Witness ==
    \E lot \in Lots : \E i \in DOMAIN ledger :
        /\ verify_chain(lot, ledger, clock).chain_valid
        /\ verify_chain(lot, ledger, clock).chain_length = 5
        /\ IsStage(ledger[i], "testing")
        /\ LET result == verify_chain(lot, Rewrite(ledger, i, "previous_hash", BogusHash), clock)
           IN  result.chain_length = 3 /\ ~result.chain_valid

-----------------------------------------------------------------------------
(* Readers of a ledger that someone may have edited *)

EditedKeys == {"payload_hash", "previous_hash", "lot_number", "ts"}

\* one field of one stored line is changed in the file, once
EditLine ==
    /\ faults < MaxFaults
    /\ \E i \in DOMAIN ledger : \E k \in DOMAIN ledger[i] \cap EditedKeys :
       \E v \in OtherValues(k, ledger[i][k]) :
           /\ ledger' = Rewrite(ledger, i, k, v)
           /\ last' = Call("edit", [line |-> i, key |-> k], Raise("", None))
    /\ faults' = faults + 1
    /\ UNCHANGED <<clock, sess>>

ReadersNext ==
    \/ RecordCatch
    \/ RecordProcessing
    \/ RecordTesting
    \/ RecordEncapsulation
    \/ RecordDistribution
    \/ EditLine
    \/ VerifyChain
    \/ GetChainSummary
    \/ GenerateQrPayload

SpecReaders == Init /\ [][ReadersNext]_vars

-----------------------------------------------------------------------------
(* What the readers leave behind *)

ReaderOps == {"verify_chain", "get_chain_summary", "generate_qr_payload"}

\* C33: verify_chain, get_chain_summary and generate_qr_payload never
\* write: for any ledger, including one that is missing, empty, tampered or
\* incomplete, the ledger after the call is identical to the ledger before
\* it, and no chain is stored.
C33_ReadersLeaveLedger ==
    [][last'.op \in ReaderOps =>
          /\ ledger' = ledger
          /\ sess' = sess
          /\ \A i \in DOMAIN ledger' : GetType(ledger'[i]) \in
                 {STAGE_ORDER[n] : n \in DOMAIN STAGE_ORDER}]_vars

\* generate_qr_payload returned errors for a lot whose five lines are in the
\* ledger, one of them edited
C33_Witness ==
    /\ last.op = "generate_qr_payload"
    /\ last.in.lot_number = FraudLot
    /\ Len(ledger) = 5
    /\ faults = 1
    /\ ~verify_chain(FraudLot, ledger, clock).chain_valid

-----------------------------------------------------------------------------
(* The validator and the detector on one shipment *)

\* the detector ran on the distribution receipt recorded from
\* validate_cold_chain's output for a non-empty log
ShipmentChecked ==
    /\ ColdChainChecked
    /\ ledger # <<>>
    /\ last.in.receipt = load_ledger(ledger)[1]
    /\ last.in.receipt.cold_chain.enabled

\* C34: validator and detector agree on cold chain: for every non-empty
\* reading list, the distribution receipt built from validate_cold_chain's
\* output makes detect_cold_chain_degradation emit an anomaly exactly when
\* cold_chain_pass is false, and nothing when cold_chain_pass is true, also
\* for readings whose maximum lies just above 8.0 and is rounded to two
\* decimals when recorded.
C34_DetectorFollowsValidator ==
    ShipmentChecked =>
        (last.out.anomalies # <<>> <=> ~last.in.receipt.cold_chain.cold_chain_pass)

-----------------------------------------------------------------------------
(* A laboratory's results, and the detectors run on the first of them *)

\* results with an accepted certificate: contaminants low, at the ceilings
\* and above; potency at and below 95 percent of the claim; oxidation fresh,
\* TOTOX at 26.0, peroxide alone and anisidine alone above the ceiling, TOTOX
\* above 26.0.  Results with a rejected certificate type or hash: clean, with
\* mercury above the ceiling, with TOTOX above 26.0.
LabResults ==
    {TestingInput("ISO17025", GoodCertHash, c[1], c[2], c[3], epa, o[1], o[2], BogusHash) :
        c \in {<<20, 30, 1200>>, <<100, 90, 3000>>, <<150, 30, 1200>>},
        epa \in {365000, 364999},
        o \in {<<3000, 10000>>, <<5000, 16000>>, <<5001, 10000>>, <<2000, 20001>>,
               <<5000, 16006>>}}
    \cup {TestingInput(cert[1], cert[2], c[1], 30, 1200, 420000, o[1], o[2], BogusHash) :
            cert \in {<<"GLP", GoodCertHash>>, <<"Other", BadCertHash>>},
            c \in {<<20>>, <<150>>},
            o \in {<<3000, 10000>>, <<5000, 16006>>}}

ReportResult ==
    \E in \in LabResults :
        Direct("create_testing_receipt", in, create_testing_receipt(in, clock))

LabNext ==
    \/ ReportResult
    \/ CheckOne

SpecLab == Init /\ [][LabNext]_vars

-----------------------------------------------------------------------------
(* A result that fails without a stop *)

WithinLimits(in) ==
    /\ LabCertificateAccepted(in)
    /\ ~AboveCeiling(in)
    /\ 2 * in.peroxide_meq_per_kg + in.anisidine <= LIMITS.totox

PotencyShortfall(in) ==
    (in.epa_mg + in.dha_mg) * 100 < in.label_claim_mg * POTENCY_THRESHOLD

OxidationMarkerHigh(in) ==
    \/ in.peroxide_meq_per_kg > LIMITS.peroxide_meq_per_kg
    \/ in.anisidine > LIMITS.anisidine

\* the step ran a detector, or all checks, on a testing receipt that
\* create_testing_receipt recorded
CheckedTesting ==
    /\ last'.op \in {"detect_yield_anomaly", "detect_label_fraud",
                      "detect_contaminant_exceed", "detect_cold_chain_degradation",
                      "run_all_fraud_checks"}
    /\ ledger # <<>>
    /\ IsStage(load_ledger(ledger)[1], "testing")

\* C35: with valid certificate fields, contaminants within their ceilings
\* and TOTOX at most 26.0, create_testing_receipt appends exactly one
\* receipt and returns it without raising, with overall_pass equal to
\* all_pass AND potency_pass AND oxidation_pass; a potency shortfall, or a
\* peroxide value above 5.0 or anisidine above 20.0 on its own, gives
\* overall_pass = false and no StopRule, and the oxidation failure leads to
\* no anomaly from any fraud detector.
C35_FailsWithoutStop ==
    [][/\ (TestingCall /\ WithinLimits(last'.in)) =>
            /\ ~last'.out.raised
            /\ ledger' = Append(ledger, ReceiptLine(last'.out.receipt[1]))
            /\ LET line == ledger'[Len(ledger')]
               IN  /\ line["overall_pass"] =
                          (/\ line["contaminants"].all_pass
                           /\ line["potency"].potency_pass
                           /\ line["oxidation"].oxidation_pass)
                   /\ line["overall_pass"] =
                          (~PotencyShortfall(last'.in) /\ ~OxidationMarkerHigh(last'.in))
       /\ CheckedTesting =>
            LET receipt == load_ledger(ledger)[1]
            IN  (/\ receipt["contaminants"].all_pass
                 /\ receipt["potency"].potency_pass
                 /\ ~receipt["oxidation"].oxidation_pass)
                => last'.out.anomalies = <<>> /\ ledger' = ledger]_vars

\* all checks ran on a recorded result whose anisidine alone was above its
\* ceiling: overall_pass false, no stop, no anomaly
C35_Witness ==
    /\ last.op = "run_all_fraud_checks"
    /\ last.out.anomalies = <<>>
    /\ Len(ledger) = 1
    /\ IsStage(ledger[1], "testing")
    /\ ~ledger[1]["overall_pass"]
    /\ ledger[1]["potency"].potency_pass
    /\ ledger[1]["oxidation"].anisidine > LIMITS.anisidine
    /\ ledger[1]["oxidation"].peroxide_meq_per_kg <= LIMITS.peroxide_meq_per_kg
    /\ ledger[1]["oxidation"].totox <= LIMITS.totox

-----------------------------------------------------------------------------
(* The certificate before the measurements *)

\* C36: create_testing_receipt checks lab_cert_type and the shape of
\* lab_cert_hash before it looks at any measurement: when either is invalid
\* it raises StopRule and appends nothing, even if a contaminant or the
\* TOTOX ceiling is breached; and on every call it appends at most one
\* receipt, also when both the contaminant and the TOTOX ceiling are
\* breached.
C36_CertificateFirst ==
    [][TestingCall =>
          /\ ~LabCertificateAccepted(last'.in) =>
                 /\ last'.out.raised
                 /\ last'.out.receipt = None
                 /\ last'.out.error.msg =
                        (IF last'.in.lab_cert_type \notin LAB_CERT_TYPES
                         THEN "Invalid lab cert type"
                         ELSE "Lab cert hash must be dual-hash format (SHA256:BLAKE3)")
                 /\ ledger' = ledger
          /\ IsPrefix(ledger, ledger')
          /\ Len(ledger') <= Len(ledger) + 1
          /\ (/\ LabCertificateAccepted(last'.in)
              /\ AboveCeiling(last'.in)
              /\ 2 * last'.in.peroxide_meq_per_kg + last'.in.anisidine > LIMITS.totox)
             => StoppedAfterEmit("CONTAMINANT_EXCEED")]_vars

\* a result with a rejected certificate type, mercury above its ceiling and
\* TOTOX above 26.0 was refused with nothing recorded
C36_Witness ==
    /\ last.op = "create_testing_receipt"
    /\ last.in.lab_cert_type \notin LAB_CERT_TYPES
    /\ last.in.mercury_ppm > LIMITS.mercury_ppm
    /\ 2 * last.in.peroxide_meq_per_kg + last.in.anisidine > LIMITS.totox
    /\ last.out.raised
    /\ last.out.error.msg = "Invalid lab cert type"
    /\ ledger = <<>>

-----------------------------------------------------------------------------
(* Two lists with one Merkle root *)

\* the list with its last item once more
LastRepeated(items) == Append(items, items[Len(items)])

\* C37: merkle_root is not injective on lists: for every list of odd length
\* n >= 3, merkle_root of the list equals merkle_root of the same list with
\* its last item appended once more (for example [a, b, c] and
\* [a, b, c, c]).
C37_OddListCollides ==
    (MerkleComputed /\ Len(last.in.items) >= 3 /\ Len(last.in.items) % 2 = 1) =>
        /\ LastRepeated(last.in.items) # last.in.items
        /\ merkle_root(LastRepeated(last.in.items)) = last.out.root

\* five items, not all the same, and the six-item list with the same root
C37_Witness ==
    /\ MerkleComputed
    /\ Len(last.in.items) = 5
    /\ last.in.items[1] # last.in.items[5]
    /\ Len(LastRepeated(last.in.items)) = 6
    /\ merkle_root(LastRepeated(last.in.items)) = last.out.root

-----------------------------------------------------------------------------
(* One batch recorded up to its laboratory result, and the lookups by batch *)

\* core.find_receipt: the first receipt of the type whose field key has the
\* value; a receipt without the field gives None, which equals no value
find_receipt(receipt_type, key, value, file) ==
    LET receipts == load_ledger(file)
    IN  FirstWhere(receipts,
            {i \in DOMAIN receipts :
                /\ Get(receipts[i], "receipt_type") = Some(receipt_type)
                /\ Get(receipts[i], key) = Some(value)})

link_to_catch(batch_id, file) == find_receipt("catch", "batch_id", batch_id, file)

link_to_testing(batch_id, file) == find_receipt("testing", "batch_id", batch_id, file)

\* the batch the validators are called for, and one that was never recorded
BatchIds == {"BP-01", "BP-02"}

LinkToCatch ==
    \E batch_id \in BatchIds :
        Query("link_to_catch", [batch_id |-> batch_id],
              [receipt |-> link_to_catch(batch_id, ledger)])

LinkToTesting ==
    \E batch_id \in BatchIds :
        Query("link_to_testing", [batch_id |-> batch_id],
              [receipt |-> link_to_testing(batch_id, ledger)])

BatchNext ==
    \/ Tick
    \/ RecordCatch
    \/ RecordProcessing
    \/ RecordTesting
    \/ LinkToCatch
    \/ LinkToTesting

SpecBatch == Init /\ [][BatchNext]_vars

-----------------------------------------------------------------------------
(* The batch identifier as the link between catch, processing and testing *)

\* the receipts of a type in the ledger, as the validators returned them
RecordedOfType(receipt_type) ==
    LET receipts == load_ledger(ledger)
    IN  {receipts[i] : i \in {j \in DOMAIN receipts : GetType(receipts[j]) = receipt_type}}

\* the catch, processing and testing receipts of the batch are in the ledger
BatchRecorded(batch_id) ==
    /\ sess[1].stage >= 3
    /\ \E r \in RecordedOfType("processing") : Get(r, "batch_id") = Some(batch_id)
    /\ \E r \in RecordedOfType("testing") : Get(r, "batch_id") = Some(batch_id)

CatchLinked ==
    (last.op = "link_to_catch" /\ BatchRecorded(last.in.batch_id)) =>
        \E r \in RecordedOfType("catch") : last.out.receipt = Some(r)

TestingLinked ==
    (last.op = "link_to_testing" /\ BatchRecorded(last.in.batch_id)) =>
        \E r \in RecordedOfType("testing") :
            /\ Get(r, "batch_id") = Some(last.in.batch_id)
            /\ last.out.receipt = Some(r)

\* C38: for a batch whose catch, processing and testing receipts were created
\* through the validators, link_to_catch(batch_id) returns the batch's catch
\* receipt and link_to_testing(batch_id) returns its testing receipt.
C38_BatchLinks == CatchLinked /\ TestingLinked

====
